---- MODULE Spec2Model ----
(***************************************************************************)
(* Model of the userspace side of `capable` (RootAsRole): the Request      *)
(* drain and aggregator, the namespace-tree union, and the policy          *)
(* assembler of src/capable/src/main.rs.                                   *)
(*                                                                         *)
(* Conventions.                                                            *)
(*  - A CapSet (capctl::CapSet, a 64-bit mask) is the set of its bit       *)
(*    numbers.  A Cap (capctl::Cap) is its variant name, a string.         *)
(*  - A 64-bit packed word (uid_gid, pnsid_nsid) is the record of its two  *)
(*    32-bit halves [hi, lo]: word = hi * 2^32 + lo.                       *)
(*  - std::collections::HashSet<CapSetEntry> is a set of entry records;    *)
(*    the lookup it performs is modelled by Matches (see there).           *)
(***************************************************************************)
EXTENDS Integers, Sequences, FiniteSets, TLC

VARIABLES
    queue,       \* ENTRY_STACK: the Requests not yet popped (top = last element)
    stream,      \* the Requests the queue held when the drain started (history)
    collide,     \* behaviour of this HashSet's hasher on keys that differ in gid only
    set_entry,   \* aggregate_cap_set_entries: the HashSet<CapSetEntry> being built
    nsinode,     \* the launched command's PID-namespace inode (root_ns)
    nsid_caps,   \* program_capabilities: map ns -> CapSet
    graph,       \* program_capabilities: map parent_ns -> children
    capset,      \* the command's capability set (tree union, later + SYS_PTRACE)
    effective,   \* capabilities the brackets have raised in the tool's effective set
    strace_log,  \* /tmp/capable_strace_<pid>.log: [kind, syscalls]
    sys_idx,     \* syscalls of the log the `.map(..)` closure has seen
    access,      \* main: access, the collected SyscallAccessEntry values
    entry_idx,   \* entries of access the `for entry in access` loop has merged
    files,       \* main: map, path -> Access
    dbus_json,   \* /tmp/capable_dbus.json: [kind, content]
    method_list, \* main: method_list
    policy,      \* the policy documents written to the output
    cap_string,  \* the last result of capset_to_string
    pc,          \* position of the main thread
    term,        \* run_command: term, the flag the TERM_SIGNALS handlers set
    cmd,         \* the launched command: [state, status, ignores_int, pending]
    wd_pc,       \* position of the watchdog thread of run_command
    wd_i,        \* the watchdog's poll counter i
    child_lock,  \* holder of the Mutex around the unshare::Child
    dbus_child,  \* the forked D-Bus monitor process: [state, pending]
    tool,        \* the tool's own process: [state, code]
    CAPABILITIES_MAP,  \* eBPF map pid -> capability mask
    UID_GID_MAP,       \* eBPF map pid -> uid_gid
    PPID_MAP,          \* eBPF map pid -> ppid
    PNSID_NSID_MAP,    \* eBPF map pid -> pnsid_nsid
    checks,      \* the capability checks the probe was invoked for (history)
    probe_ret,   \* what the last invocation of the probe returned: [kind, value]
    wire,        \* one check's packed fields on their way from the probe to the drain
    credentials_requests,  \* Memory: MsgKey -> bus name asked about
    messages,    \* Memory: every message handled, in order
    owners,      \* Memory: namespace -> bus names
    bus_requests, \* Memory: requests, bus name -> its method calls
    cancel,      \* Memory: cancel, the flag the D-Bus child's handlers set
    dbus_pc      \* position of the D-Bus child in its branch of main

aggvars == <<queue, stream, collide, set_entry, nsinode, nsid_caps, graph>>
polvars == <<strace_log, sys_idx, access, entry_idx, files, dbus_json, method_list,
            policy, cap_string>>
runvars == <<term, cmd, wd_pc, wd_i, child_lock, dbus_child, tool>>
kernvars == <<CAPABILITIES_MAP, UID_GID_MAP, PPID_MAP, PNSID_NSID_MAP, checks,
             probe_ret, wire>>
busvars == <<credentials_requests, messages, owners, bus_requests, cancel,
            dbus_pc>>
envvars == <<runvars, kernvars, busvars>>
vars == <<aggvars, capset, effective, polvars, pc, envvars>>

(***************************************************************************)
(* Bounds of the model.                                                    *)
(***************************************************************************)
MaxFilterLen == 1   \* Requests in a stream of the stack-filter workload
MaxTreeLen == 3     \* Requests in a stream of the namespace-tree workload
MaxKeysLen == 3     \* Requests in a stream of the process-key workload
MaxPolicyLen == 2   \* Requests in a stream of the policy workload
MaxLogLen == 2      \* syscalls in a strace log
MaxAccessLen == 3   \* SyscallAccessEntry values merged into the files map
MaxMapLen == 1      \* syscalls in a strace log of the mapper workload

(***************************************************************************)
(* capctl::Cap: the variants in discriminant order (the Linux capability   *)
(* numbers), and the two conversions the program uses: `Cap::X as u8` and  *)
(* the CapSet iterator's bit -> Cap.                                       *)
(***************************************************************************)
CapVariants ==
    << "CHOWN", "DAC_OVERRIDE", "DAC_READ_SEARCH", "FOWNER", "FSETID", "KILL",
       "SETGID", "SETUID", "SETPCAP", "LINUX_IMMUTABLE", "NET_BIND_SERVICE",
       "NET_BROADCAST", "NET_ADMIN", "NET_RAW", "IPC_LOCK", "IPC_OWNER",
       "SYS_MODULE", "SYS_RAWIO", "SYS_CHROOT", "SYS_PTRACE", "SYS_PACCT",
       "SYS_ADMIN", "SYS_BOOT", "SYS_NICE", "SYS_RESOURCE", "SYS_TIME",
       "SYS_TTY_CONFIG", "MKNOD", "LEASE", "AUDIT_WRITE", "AUDIT_CONTROL",
       "SETFCAP", "MAC_OVERRIDE", "MAC_ADMIN", "SYSLOG", "WAKE_ALARM",
       "BLOCK_SUSPEND", "AUDIT_READ", "PERFMON", "BPF", "CHECKPOINT_RESTORE" >>

CapAsU8(cap) == (CHOOSE i \in 1..Len(CapVariants) : CapVariants[i] = cap) - 1

CapFromBit(bit) == CapVariants[bit + 1]

EmptyCapSet == {}

\* !CapSet::empty(): every capability capctl knows
FullCapSet == 0..(Len(CapVariants) - 1)

\* (mutant) the bit is toggled instead of set
CapSetAdd_Toggle(set, cap) ==
    IF CapAsU8(cap) \in set THEN set \ {CapAsU8(cap)} ELSE set \cup {CapAsU8(cap)}

\* CapSet::add / CapSetEntry::add
CapSetAdd(set, cap) == set \cup {CapAsU8(cap)}

(***************************************************************************)
(* get_cap: the table of main.rs, index -> Cap ("None" for Option::None).  *)
(***************************************************************************)
GetCapTable ==
    << "CHOWN", "DAC_OVERRIDE", "DAC_READ_SEARCH", "FOWNER", "FSETID", "KILL",
       "SETGID", "SETUID", "SETPCAP", "LINUX_IMMUTABLE", "NET_BIND_SERVICE",
       "NET_BROADCAST", "NET_ADMIN", "NET_RAW", "IPC_LOCK", "IPC_OWNER",
       "SYS_MODULE", "SYS_RAWIO", "SYS_CHROOT", "SYS_PTRACE", "SYS_PACCT",
       "SYS_ADMIN", "SYS_BOOT", "SYS_NICE", "SYS_RESOURCE", "SYS_TIME",
       "SYS_TTY_CONFIG", "MKNOD", "LEASE", "AUDIT_WRITE", "AUDIT_CONTROL",
       "SETFCAP", "MAC_OVERRIDE", "MAC_ADMIN", "SYSLOG", "WAKE_ALARM",
       "BLOCK_SUSPEND", "AUDIT_READ", "PERFMON", "BPF", "CHECKPOINT_RESTORE" >>

get_cap_SwappedRows(val) ==
    IF val \in 0..40
    THEN GetCapTable[(IF val = 7 THEN 8 ELSE IF val = 8 THEN 7 ELSE val) + 1]
    ELSE "None"

\* (mutant) an index above the table is given the table's last capability
get_cap_Saturating(val) ==
    IF val \in 0..40 THEN GetCapTable[val + 1] ELSE GetCapTable[41]

get_cap(val) == IF val \in 0..40 THEN GetCapTable[val + 1] ELSE "None"

(***************************************************************************)
(* Kernel symbols (aya::util::kernel_symbols, a BTreeMap address -> name)  *)
(* and the stack-trace table (STACKTRACE_MAP, stackid -> frames).  Both    *)
(* are inputs of the drain; the model fixes one instance of each.          *)
(***************************************************************************)
ksyms == (10 :> "cap_capable") @@ (20 :> "may_open")
            @@ (30 :> "cap_bprm_creds_from_file") @@ (40 :> "ns_capable")

stacktrace_map ==
       (0 :> << 12, 45 >>)          \* cap_capable, ns_capable
    @@ (1 :> << 12, 25, 45 >>)      \* ... may_open ...
    @@ (2 :> << 12, 35 >>)          \* ... cap_bprm_creds_from_file
    @@ (3 :> << 5 >>)               \* a frame below every symbol
    @@ (4 :> << 5, 20, 30 >>)       \* both filtered symbols, at their first address

\* a stackid with no entry in the table
MissingStackId == 9

I32_MAX == 2147483647

\* ksyms.range(..=ip).next_back(): the symbol at the greatest address <= ip
SymbolAt(ip) ==
    LET below == {a \in DOMAIN ksyms : a <= ip}
    IN IF below = {} THEN "None"
       ELSE ksyms[CHOOSE a \in below : \A b \in below : b <= a]

skip_priv_sym(stack, symbol) ==
    \E i \in 1..Len(stack) : SymbolAt(stack[i]) # "None" /\ SymbolAt(stack[i]) = symbol

(***************************************************************************)
(* extract_ns and the uid/gid split of the drain.                          *)
(***************************************************************************)
Word(hi, lo) == [hi |-> hi, lo |-> lo]

\* (ns, parent_ns) = (word & 0xffffffff, word >> 32)
extract_ns(pinum_inum) == << pinum_inum.lo, pinum_inum.hi >>

(***************************************************************************)
(* CapSetEntry, its PartialEq (gid is not compared) and its Hash (gid is   *)
(* hashed).                                                                *)
(***************************************************************************)
CapSetEntry_new(pid, ppid, uid, gid, parent_ns, ns) ==
    [pid |-> pid, ppid |-> ppid, uid |-> uid, gid |-> gid,
     parent_ns |-> parent_ns, ns |-> ns, capabilities |-> EmptyCapSet]

CapSetEntry_eq(a, b) ==
    /\ a.pid = b.pid
    /\ a.ppid = b.ppid
    /\ a.uid = b.uid
    /\ a.parent_ns = b.parent_ns
    /\ a.ns = b.ns

\* The fields Hash feeds to the hasher.
CapSetEntry_hash(a) == << a.pid, a.ppid, a.uid, a.gid, a.parent_ns, a.ns >>

(***************************************************************************)
(* HashSet lookup.  The table meets an element only on the probe sequence  *)
(* of the looked-up hash and then compares with PartialEq.  Two entries    *)
(* with the same hashed fields always meet.  Two entries that are equal    *)
(* but differ in gid have unrelated hashes: they meet only when the        *)
(* hasher (RandomState, keyed per HashSet) happens to give both the same   *)
(* control tag.  `col` is that outcome for one HashSet instance.           *)
(***************************************************************************)
Matches(set, e, col) ==
    {x \in set : CapSetEntry_eq(x, e)
                    /\ (CapSetEntry_hash(x) = CapSetEntry_hash(e) \/ col)}

\* HashSet::insert keeps the element already there
HashSet_insert(set, e, col) ==
    IF Matches(set, e, col) # {} THEN set ELSE set \cup {e}

(***************************************************************************)
(* The stack-filter rule set of aggregate_cap_set_entries.                 *)
(***************************************************************************)
\* (mutant) the two stack rules look for each other's symbol
Filtered_SwappedSymbols(capability, stack) ==
    \/ capability = CapAsU8("SETUID") /\ skip_priv_sym(stack, "may_open")
    \/ capability = CapAsU8("DAC_OVERRIDE")
    \/ capability = CapAsU8("DAC_READ_SEARCH")
            /\ skip_priv_sym(stack, "cap_bprm_creds_from_file")
    \/ capability = CapAsU8("SYS_PTRACE")

Filtered(capability, stack) ==
    \/ capability = CapAsU8("SETUID") /\ skip_priv_sym(stack, "cap_bprm_creds_from_file")
    \/ capability = CapAsU8("DAC_OVERRIDE")
    \/ capability = CapAsU8("DAC_READ_SEARCH") /\ skip_priv_sym(stack, "may_open")
    \/ capability = CapAsU8("SYS_PTRACE")

\* (mutant) the entry's CapSet is replaced by the new bit instead of ORed
AggStep_Overwrite(set, r, col) ==
    LET nsp == extract_ns(r.pnsid_nsid)
        fresh == CapSetEntry_new(r.pid, r.ppid, r.uid_gid.lo, r.uid_gid.hi, nsp[2], nsp[1])
        found == Matches(set, fresh, col)
        taken == set \ found
        entry == IF found # {} THEN CHOOSE x \in found : TRUE ELSE fresh
    IN IF r.stackid \notin DOMAIN stacktrace_map
       THEN [status |-> "err", set |-> taken]
       ELSE IF Filtered(r.capability, stacktrace_map[r.stackid])
            THEN [status |-> "ok", set |-> HashSet_insert(taken, entry, col)]
            ELSE IF get_cap(r.capability) = "None"
                 THEN [status |-> "panic", set |-> taken]
                 ELSE [status |-> "ok",
                       set |-> HashSet_insert(taken,
                                 [entry EXCEPT !.capabilities =
                                     {CapAsU8(get_cap(r.capability))}], col)]

(***************************************************************************)
(* One iteration of the `while let Ok(..) = data_map.pop(0)` loop.         *)
(* Result: status "ok" (next iteration), "err" (the `?` on the stack-trace *)
(* lookup returns Err) or "panic" (assert! / expect), and the set.         *)
(***************************************************************************)
AggStep(set, r, col) ==
    IF ~(r.stackid <= I32_MAX) THEN [status |-> "panic", set |-> set]
    ELSE
    LET nsp == extract_ns(r.pnsid_nsid)
        uid == r.uid_gid.lo
        gid == r.uid_gid.hi
        fresh == CapSetEntry_new(r.pid, r.ppid, uid, gid, nsp[2], nsp[1])
        found == Matches(set, fresh, col)
        \* set_entry.take(&entry)
        taken == set \ found
        entry == IF found # {} THEN CHOOSE x \in found : TRUE ELSE fresh
    IN IF r.stackid \notin DOMAIN stacktrace_map
       THEN [status |-> "err", set |-> taken]
       ELSE LET stack == stacktrace_map[r.stackid]
            IN IF Filtered(r.capability, stack)
               THEN [status |-> "ok", set |-> HashSet_insert(taken, entry, col)]
               ELSE IF get_cap(r.capability) = "None"
                    THEN [status |-> "panic", set |-> taken]
                    ELSE [status |-> "ok",
                          set |-> HashSet_insert(taken,
                                    [entry EXCEPT !.capabilities =
                                        CapSetAdd(@, get_cap(r.capability))], col)]

\* The whole drain of a queue, top first.
RECURSIVE aggregate_cap_set_entries(_, _, _)
aggregate_cap_set_entries(q, set, col) ==
    IF q = << >> THEN [status |-> "ok", set |-> set]
    ELSE LET s == AggStep(set, q[Len(q)], col)
         IN IF s.status = "ok"
            THEN aggregate_cap_set_entries(SubSeq(q, 1, Len(q) - 1), s.set, col)
            ELSE s

(***************************************************************************)
(* program_capabilities: the namespace maps and the tree union.            *)
(***************************************************************************)
\* nsid_caps.entry(ns).or_insert_with(CapSet::empty) |= capabilities
BuildNsidCaps(set) ==
    [n \in {e.ns : e \in set} |->
        UNION {e.capabilities : e \in {x \in set : x.ns = n}}]

\* graph.entry(parent_ns).or_insert_with(Vec::new).push(ns); the Vec's order is
\* the HashSet's iteration order and the union reads every element of it
BuildGraph(set) ==
    [p \in {e.parent_ns : e \in set} |->
        {e.ns : e \in {x \in set : x.parent_ns = p}}]

\* Namespaces a call path of the recursion can go through.
GraphNodes(g) == DOMAIN g \cup UNION {g[p] : p \in DOMAIN g}

\* (mutant) only the direct children are united, without the recursion
union_all_childs_NoRecursion(ns0, g, cap_graph, depth) ==
    [ok |-> TRUE,
     caps |-> UNION {IF ns \in DOMAIN cap_graph THEN cap_graph[ns] ELSE {} :
                        ns \in (IF ns0 \in DOMAIN g THEN g[ns0] ELSE {})}]

\* union_all_childs.  `depth` is the number of frames on the call stack: a
\* path longer than the number of namespaces repeats one, and the recursion
\* never returns (ok = FALSE).
RECURSIVE union_all_childs(_, _, _, _)
union_all_childs(ns0, g, cap_graph, depth) ==
    IF depth > Cardinality(GraphNodes(g)) + 1 THEN [ok |-> FALSE, caps |-> {}]
    ELSE
    LET children == IF ns0 \in DOMAIN g THEN g[ns0] ELSE {}
        own(ns) == IF ns \in DOMAIN cap_graph THEN cap_graph[ns] ELSE EmptyCapSet
        sub(ns) == IF ns \in DOMAIN g /\ ns # ns0
                   THEN union_all_childs(ns, g, cap_graph, depth + 1)
                   ELSE [ok |-> TRUE, caps |-> {}]
    IN [ok |-> \A ns \in children : sub(ns).ok,
        caps |-> UNION {own(ns) \cup sub(ns).caps : ns \in children}]

\* program_capabilities on a queue: status "ok" and the tree union, or no
\* value ("err"/"panic" from the drain, "overflow" when the union never returns)
program_capabilities(root, q, col) ==
    LET a == aggregate_cap_set_entries(q, {}, col)
    IN IF a.status # "ok"
       THEN [status |-> a.status, nsid_caps |-> << >>, caps |-> EmptyCapSet]
       ELSE LET u == union_all_childs(root, BuildGraph(a.set), BuildNsidCaps(a.set), 1)
            IN [status |-> IF u.ok THEN "ok" ELSE "overflow",
                nsid_caps |-> BuildNsidCaps(a.set), caps |-> u.caps]

(***************************************************************************)
(* Actions of the aggregation pass.                                        *)
(***************************************************************************)
\* one iteration of the drain loop of aggregate_cap_set_entries
Pop ==
    /\ pc = "drain"
    /\ queue # << >>
    /\ LET s == AggStep(set_entry, queue[Len(queue)], collide)
       IN /\ set_entry' = s.set
          /\ pc' = IF s.status = "ok" THEN "drain" ELSE "panic"
    /\ queue' = SubSeq(queue, 1, Len(queue) - 1)
    /\ UNCHANGED <<stream, collide, nsinode, nsid_caps, graph, capset, effective, polvars>>
    /\ UNCHANGED envvars

\* the pop fails (queue empty): the rest of program_capabilities
ProgramCapabilities ==
    /\ pc = "drain"
    /\ queue = << >>
    /\ nsid_caps' = BuildNsidCaps(set_entry)
    /\ graph' = BuildGraph(set_entry)
    \* setbpf_effective(false)
    /\ effective' = effective \ {"BPF"}
    /\ LET u == union_all_childs(nsinode, graph', nsid_caps', 1)
       IN IF u.ok
          THEN capset' = u.caps /\ pc' = "strace"
          ELSE capset' = capset /\ pc' = "overflow"
    /\ UNCHANGED <<queue, stream, collide, set_entry, nsinode, polvars>>
    /\ UNCHANGED envvars

NextAgg == Pop \/ ProgramCapabilities

(***************************************************************************)
(* capset_to_vec and capset_to_string.  The CapSet iterator yields the     *)
(* capabilities in ascending bit order; `{:?}` of a Cap is its variant     *)
(* name.                                                                   *)
(***************************************************************************)
RECURSIVE CapSetIter(_)
CapSetIter(set) ==
    IF set = {} THEN << >>
    ELSE LET bit == CHOOSE b \in set : \A o \in set : b <= o
         IN << CapFromBit(bit) >> \o CapSetIter(set \ {bit})

capset_to_vec(set) ==
    LET caps == CapSetIter(set)
    IN [i \in 1..Len(caps) |-> "CAP_" \o caps[i]]

RECURSIVE Concat(_)
Concat(strs) == IF strs = << >> THEN "" ELSE Head(strs) \o Concat(Tail(strs))

\* fold "CAP_<name> " over the set, then trim_end()
capset_to_string(set) ==
    IF set = FullCapSet THEN "ALL"
    ELSE LET caps == CapSetIter(set)
         IN Concat([i \in 1..Len(caps) |->
                "CAP_" \o caps[i] \o (IF i < Len(caps) THEN " " ELSE "")])

(***************************************************************************)
(* syscalls.rs: Access (bitflags R = 0b100, W = 0b010, X = 0b001) is the   *)
(* set of its flag letters, so `|` is set union and `a.intersection(b) ==  *)
(* a` is a \subseteq b.                                                    *)
(***************************************************************************)
AccessBit == [R |-> 4, W |-> 2, X |-> 1]

\* (mutant) the owner's bits are read where the others' are
Access_from_bits_truncate_All(bits) == {"R", "W", "X"}

Access_from_bits_truncate(bits) ==
    {l \in DOMAIN AccessBit : (bits \div AccessBit[l]) % 2 = 1}

\* impl Display for Access: the letters R, W, X in that order
Access_to_string(a) ==
    (IF "R" \in a THEN "R" ELSE "") \o (IF "W" \in a THEN "W" ELSE "")
        \o (IF "X" \in a THEN "X" ELSE "")

Call(name, pos, a) == [name |-> name, pos |-> pos, access |-> a]

\* CALLS: (name, Pos, Access).  pos is the 1-based index of the argument
\* that Pos selects (Pos::One -> nth(0) -> 1), 0 for Pos::empty().
CALLS == <<
    Call("access", 1, {}), Call("acct", 1, {}), Call("bsd43_fstat", 0, {}),
    Call("bsd43_fstatfs", 0, {}), Call("bsd43_lstat", 0, {}),
    Call("bsd43_oldfstat", 0, {}), Call("bsd43_oldstat", 0, {}),
    Call("bsd43_stat", 0, {}), Call("bsd43_statfs", 0, {}),
    Call("chdir", 1, {}), Call("chmod", 1, {}), Call("chown", 1, {}),
    Call("chown32", 1, {}), Call("chroot", 1, {}), Call("creat", 1, {"W"}),
    Call("execv", 1, {"R", "X"}), Call("execve", 1, {"R", "X"}),
    Call("execveat", 1, {"R", "X"}), Call("faccessat", 1, {}),
    Call("faccessat2", 1, {}), Call("fanotify_mark", 5, {}),
    Call("fchmodat", 2, {}), Call("fchmodat2", 1, {}),
    Call("fchownat", 1, {}), Call("fsconfig", 5, {}), Call("fspick", 2, {}),
    Call("fstat", 0, {}), Call("fstat64", 0, {}), Call("fstatat64", 0, {}),
    Call("fstatfs", 0, {}), Call("fstatfs64", 0, {}),
    Call("futimesat", 1, {"W"}), Call("getcwd", 1, {}),
    Call("getxattr", 1, {"R"}), Call("inotify_add_watch", 1, {}),
    Call("lchown", 1, {}), Call("lchown32", 1, {}),
    Call("lgetxattr", 1, {"R"}), Call("link", 2, {"W"}),
    Call("linkat", 4, {"W"}), Call("listxattr", 1, {"R"}),
    Call("llistxattr", 1, {"R"}), Call("lremovexattr", 1, {"W"}),
    Call("lsetxattr", 1, {"W"}), Call("lstat", 1, {}),
    Call("lstat64", 1, {}), Call("mkdir", 1, {"W"}),
    Call("mkdirat", 2, {"W"}), Call("mknod", 1, {"W"}),
    Call("mknodat", 2, {"W"}), Call("mount", 0, {}),
    Call("mount_setattr", 0, {}), Call("move_mount", 0, {}),
    Call("name_to_handle_at", 2, {"R"}), Call("newfstatat", 2, {"R"}),
    Call("oldfstat", 0, {}), Call("oldlstat", 0, {}), Call("oldstat", 0, {}),
    Call("oldumount", 0, {}), Call("open", 1, {}), Call("openat", 2, {}),
    Call("openat2", 2, {}), Call("open_tree", 2, {}),
    Call("osf_fstat", 0, {}), Call("osf_fstatfs", 0, {}),
    Call("osf_fstatfs64", 0, {}), Call("osf_lstat", 0, {}),
    Call("osf_old_fstat", 0, {}), Call("osf_old_lstat", 0, {}),
    Call("osf_old_stat", 0, {}), Call("osf_stat", 0, {}),
    Call("osf_statfs", 0, {}), Call("osf_statfs64", 0, {}),
    Call("osf_utimes", 1, {"W"}), Call("pivot_root", 1, {}),
    Call("posix_fstat", 0, {}), Call("posix_fstatfs", 0, {}),
    Call("posix_lstat", 0, {}), Call("posix_stat", 0, {}),
    Call("posix_statfs", 0, {}), Call("quotactl", 0, {}),
    Call("readlink", 1, {"R"}), Call("readlinkat", 2, {"R"}),
    Call("removexattr", 1, {}), Call("rename", 1, {"W"}),
    Call("renameat", 2, {"W"}), Call("renameat2", 2, {"W"}),
    Call("rmdir", 1, {"W"}), Call("setxattr", 1, {}), Call("stat", 0, {}),
    Call("stat64", 0, {}), Call("statfs", 0, {}), Call("statfs64", 0, {}),
    Call("statx", 2, {}), Call("svr4_fstat", 0, {}),
    Call("svr4_fstatfs", 0, {}), Call("svr4_fstatvfs", 0, {}),
    Call("svr4_fxstat", 0, {}), Call("svr4_lstat", 0, {}),
    Call("svr4_lxstat", 0, {}), Call("svr4_stat", 0, {}),
    Call("svr4_statfs", 0, {}), Call("svr4_statvfs", 0, {}),
    Call("svr4_xstat", 0, {}), Call("swapoff", 1, {}), Call("swapon", 1, {}),
    Call("symlink", 1, {"W"}), Call("symlinkat", 2, {"W"}),
    Call("sysv_fstat", 0, {}), Call("sysv_fstatfs", 0, {}),
    Call("sysv_fstatvfs", 0, {}), Call("sysv_fxstat", 0, {}),
    Call("sysv_lstat", 0, {}), Call("sysv_lxstat", 0, {}),
    Call("sysv_quotactl", 0, {}), Call("sysv_stat", 0, {}),
    Call("sysv_statfs", 0, {}), Call("sysv_statvfs", 0, {}),
    Call("sysv_xstat", 0, {}), Call("truncate", 1, {"W"}),
    Call("truncate64", 1, {"W"}), Call("umount", 0, {}),
    Call("umount2", 0, {}), Call("unlink", 1, {"W"}),
    Call("unlinkat", 2, {"W"}), Call("uselib", 0, {}),
    Call("utime", 1, {"W"}), Call("utimensat", 2, {"W"}),
    Call("utimensat_time64", 2, {"W"}), Call("utimes", 1, {"W"})
>>

(***************************************************************************)
(* The file system the tool looks at after the run, for the paths of the   *)
(* model: Path::parent (lexical), fs::symlink_metadata (exists, and the    *)
(* st_mode & 0o7 bits) and Path::canonicalize ("None" when it fails).      *)
(*   /etc/passwd  world-readable           /priv, /priv/key  owner-only    *)
(*   /tmp         world-writable           /tmp/new  created by the run    *)
(*   /lnk         symbolic link to /priv   /gone     does not exist        *)
(***************************************************************************)
File(parent, exists, mode, canon) ==
    [parent |-> parent, exists |-> exists, mode |-> mode, canon |-> canon]

Fs ==
    [p \in {"/", "/etc", "/etc/passwd", "/priv", "/priv/key", "/tmp",
            "/tmp/new", "/lnk", "/lnk/key", "/gone", "/gone/f"} |->
        CASE p = "/"           -> File("None", TRUE, 5, "/")
          [] p = "/etc"        -> File("/", TRUE, 5, "/etc")
          [] p = "/etc/passwd" -> File("/etc", TRUE, 4, "/etc/passwd")
          [] p = "/priv"       -> File("/", TRUE, 0, "/priv")
          [] p = "/priv/key"   -> File("/priv", TRUE, 0, "/priv/key")
          [] p = "/tmp"        -> File("/", TRUE, 7, "/tmp")
          [] p = "/tmp/new"    -> File("/tmp", TRUE, 5, "/tmp/new")
          [] p = "/lnk"        -> File("/", TRUE, 7, "/priv")
          [] p = "/lnk/key"    -> File("/lnk", TRUE, 0, "/priv/key")
          [] p = "/gone"       -> File("/", FALSE, 0, "None")
          [] p = "/gone/f"     -> File("/gone", FALSE, 0, "None")]

\* a string that names no file of the model (a flag word, a number)
PathParent(p) == IF p \in DOMAIN Fs THEN Fs[p].parent ELSE "None"
PathExists(p) == p \in DOMAIN Fs /\ Fs[p].exists
\* path.canonicalize().unwrap_or(path.to_path_buf())
Canonicalize(p) ==
    IF p \in DOMAIN Fs /\ Fs[p].canon # "None" THEN Fs[p].canon ELSE p

(***************************************************************************)
(* strace.rs: a Syscall is [syscall, args, constant] (constant is          *)
(* return_code.constant, "None" for Option::None); an argument is the      *)
(* string Parameter::to_string() gives.                                    *)
(***************************************************************************)
Syscall(name, args, constant) ==
    [syscall |-> name, args |-> args, constant |-> constant]

\* str::trim for the names of the model
Trim(s) == IF s \in {" ptrace", "ptrace ", " ptrace "} THEN "ptrace" ELSE s

\* str::contains(flag) for the flag arguments of the model
FlagWords ==
    [s \in {"O_RDONLY", "O_WRONLY", "O_RDWR", "O_RDONLY|O_CLOEXEC",
            "O_WRONLY|O_CREAT", "O_WRONLY|O_CREAT|O_TRUNC", "O_RDWR|O_CREAT"} |->
        CASE s = "O_RDONLY"                 -> {"O_RDONLY"}
          [] s = "O_WRONLY"                 -> {"O_WRONLY"}
          [] s = "O_RDWR"                   -> {"O_RDWR"}
          [] s = "O_RDONLY|O_CLOEXEC"       -> {"O_RDONLY"}
          [] s = "O_WRONLY|O_CREAT"         -> {"O_WRONLY", "O_CREAT"}
          [] s = "O_WRONLY|O_CREAT|O_TRUNC" -> {"O_WRONLY", "O_CREAT"}
          [] s = "O_RDWR|O_CREAT"           -> {"O_RDWR", "O_CREAT"}]

StrContains(s, flag) == s \in DOMAIN FlagWords /\ flag \in FlagWords[s]

SyscallAccessEntry(path, a, syscall) ==
    [path |-> path, access |-> a, syscall |-> syscall]

\* check_directories_access: `parent` is the loop variable, initially the
\* path itself; the entries come nearest directory first
RECURSIVE check_directories_access(_, _, _, _)
check_directories_access(initial_path, parent, syscall, create_or_delete) ==
    IF PathParent(parent) = "None" THEN << >>
    ELSE LET dir == PathParent(parent)
             rest == check_directories_access(initial_path, dir, syscall,
                                              create_or_delete)
             mode == Access_from_bits_truncate(Fs[dir].mode)
             a == {"X"} \cup (IF create_or_delete /\ PathParent(initial_path) = dir
                              THEN {"W"} ELSE {})
         IN IF ~PathExists(dir) THEN rest
            ELSE IF a \subseteq mode THEN rest
            ELSE << SyscallAccessEntry(Canonicalize(dir), a, syscall.syscall) >>
                     \o rest

\* the access the flags of open/openat/openat2 add
OpenFlagsAccess(flags) ==
    (IF StrContains(flags, "O_RDONLY") THEN {"R"} ELSE {})
        \cup (IF StrContains(flags, "O_CREAT") THEN {"W"} ELSE {})
        \cup (IF StrContains(flags, "O_WRONLY") THEN {"W"} ELSE {})
        \cup (IF StrContains(flags, "O_RDWR") THEN {"R", "W"} ELSE {})

\* The body of `if *name == syscall.syscall` for row i of CALLS.
\* Result: kind is "Continue" (the `continue` on an empty access), "None",
\* "Panic" (expect / index out of bounds) or "Some" with its entries; eff is
\* the effective set the dac_read_search_effective calls leave.
EntryResult(kind, entries, eff) == [kind |-> kind, entries |-> entries, eff |-> eff]

MatchedCall(syscall, i, eff) ==
    LET row == CALLS[i]
        args == syscall.args
        opens == row.name \in {"open", "openat", "openat2"}
        path == args[row.pos]
        flags == IF Len(args) > 2 THEN args[3] ELSE args[2]
        create_or_delete ==
            \/ opens /\ StrContains(flags, "O_CREAT")
            \/ row.name \in {"mkdir", "mkdirat", "mknod", "mknodat", "symlink",
                             "symlinkat", "unlink", "unlinkat"}
        a == row.access \cup (IF opens THEN OpenFlagsAccess(flags) ELSE {})
        dirs == check_directories_access(path, path, syscall, create_or_delete)
        raised == eff \cup {"DAC_READ_SEARCH"}
        lowered == eff \ {"DAC_READ_SEARCH"}
    IN IF Len(args) < row.pos THEN EntryResult("Panic", << >>, eff)
       ELSE IF opens /\ Len(args) < 2 THEN EntryResult("Panic", << >>, eff)
       ELSE IF a = {} THEN EntryResult("Continue", << >>, eff)
       ELSE IF syscall.constant = "ENOENT" THEN EntryResult("None", << >>, eff)
       ELSE IF ~PathExists(path) THEN EntryResult("None", << >>, raised)
       ELSE IF a \subseteq Access_from_bits_truncate(Fs[path].mode)
            THEN EntryResult("None", << >>, raised)
       ELSE EntryResult("Some",
                dirs \o << SyscallAccessEntry(Canonicalize(path), a,
                                              syscall.syscall) >>,
                lowered)

\* syscall_to_entry: the `for (name, pos, access) in CALLS.iter()` loop.
\* rows are the rows the loop has not reached yet that pass both tests
\* (a path position, the syscall's name); the loop skips every other row.
RECURSIVE ScanCalls(_, _, _)
ScanCalls(syscall, rows, eff) ==
    IF rows = {} THEN EntryResult("None", << >>, eff)
    ELSE LET i == CHOOSE r \in rows : \A o \in rows : r <= o
             m == MatchedCall(syscall, i, eff)
         IN IF m.kind = "Continue" THEN ScanCalls(syscall, rows \ {i}, m.eff)
            ELSE m

syscall_to_entry(syscall, eff) ==
    ScanCalls(syscall,
              {i \in 1..Len(CALLS) :
                  CALLS[i].pos # 0 /\ CALLS[i].name = syscall.syscall},
              eff)

(***************************************************************************)
(* bus.rs: get_dbus_methods.  The JSON file is the map ns -> [DbusMsg]; a  *)
(* DbusMsg is [msg_type, interface, method] ("None" for Option::None).     *)
(* Result: "Panic" (an unwrap fails) or "Ok" with the methods.             *)
(***************************************************************************)
DbusMsg(msg_type, interface, method) ==
    [msg_type |-> msg_type, interface |-> interface, method |-> method]

get_dbus_methods(content, nsid) ==
    IF nsid \notin DOMAIN content THEN [kind |-> "Panic", methods |-> << >>]
    ELSE LET requests == content[nsid]
             calls == SelectSeq(requests, LAMBDA r : r.msg_type = "MethodCall")
         IN IF \E i \in 1..Len(calls) :
                   calls[i].interface = "None" \/ calls[i].method = "None"
            THEN [kind |-> "Panic", methods |-> << >>]
            ELSE [kind |-> "Ok",
                  methods |-> [i \in 1..Len(calls) |->
                      calls[i].interface \o "." \o calls[i].method]]

\* env::vars() of the tool
EnvVars == [PATH |-> "/usr/bin"]

(***************************************************************************)
(* The policy assembler: main, after program_capabilities.                 *)
(***************************************************************************)
\* one pass of `for entry in access`: *map.entry(key).or_insert(value) |= access
MergeStep_Overwrite(map, entry) ==
    IF entry.path \in DOMAIN map
    THEN [map EXCEPT ![entry.path] = entry.access]
    ELSE (entry.path :> entry.access) @@ map

MergeStep(map, entry) ==
    IF entry.path \in DOMAIN map
    THEN [map EXCEPT ![entry.path] = @ \cup entry.access]
    ELSE (entry.path :> (entry.access \cup entry.access)) @@ map

\* metadata(&file_path).is_ok() and read_strace
ReadStrace ==
    /\ pc = "strace"
    /\ pc' = IF strace_log.kind = "Garbage" THEN "panic" ELSE "map"
    /\ UNCHANGED <<aggvars, capset, effective, polvars>>
    /\ UNCHANGED envvars

\* the closure of the `.map(|syscall| ..)` over the next syscall of the log
SysAddsPtrace_Untrimmed(syscall) == syscall.syscall = "ptrace"

SysAddsPtrace(syscall) == Trim(syscall.syscall) = "ptrace"

MapSyscall ==
    /\ pc = "map"
    /\ strace_log.kind = "Log"
    /\ sys_idx < Len(strace_log.syscalls)
    /\ LET syscall == strace_log.syscalls[sys_idx + 1]
           r == syscall_to_entry(syscall, effective)
       IN /\ capset' = IF SysAddsPtrace(syscall)
                       THEN CapSetAdd(capset, "SYS_PTRACE") ELSE capset
          /\ effective' = r.eff
          /\ access' = access \o r.entries
          /\ pc' = IF r.kind = "Panic" THEN "panic" ELSE "map"
    /\ sys_idx' = sys_idx + 1
    /\ UNCHANGED <<aggvars, strace_log, entry_idx, files, dbus_json,
                   method_list, policy, cap_string>>
    /\ UNCHANGED envvars

StraceDone == strace_log.kind # "Log" \/ sys_idx = Len(strace_log.syscalls)

MergeEntry ==
    /\ pc = "map"
    /\ StraceDone
    /\ entry_idx < Len(access)
    /\ files' = MergeStep(files, access[entry_idx + 1])
    /\ entry_idx' = entry_idx + 1
    /\ UNCHANGED <<aggvars, capset, effective, strace_log, sys_idx, access,
                   dbus_json, method_list, policy, cap_string, pc>>
    /\ UNCHANGED envvars

\* the D-Bus filtering
GetDbusMethods ==
    /\ pc = "map"
    /\ StraceDone
    /\ entry_idx = Len(access)
    /\ IF dbus_json.kind = "Absent"
       THEN method_list' = << >> /\ pc' = "emit"
       ELSE LET m == get_dbus_methods(dbus_json.content, nsinode)
            IN /\ method_list' = m.methods
               /\ pc' = IF m.kind = "Ok" THEN "emit" ELSE "panic"
    /\ UNCHANGED <<aggvars, capset, effective, strace_log, sys_idx, access,
                   entry_idx, files, dbus_json, policy, cap_string>>
    /\ UNCHANGED envvars

\* ProgramResult and its serialisation (Access serialises as its Display)
ProgramResult(caps, map, dbus, env) ==
    [capabilities |-> capset_to_vec(caps),
     files |-> [p \in DOMAIN map |-> Access_to_string(map[p])],
     dbus |-> dbus,
     env_vars |-> env]

Emit ==
    /\ pc = "emit"
    /\ policy' = Append(policy, ProgramResult(capset, files, method_list, EnvVars))
    /\ pc' = "done"
    /\ UNCHANGED <<aggvars, capset, effective, strace_log, sys_idx, access,
                   entry_idx, files, dbus_json, method_list, cap_string>>
    /\ UNCHANGED envvars

NextFiles == MergeEntry \/ GetDbusMethods \/ Emit

Next == NextAgg \/ ReadStrace \/ MapSyscall \/ NextFiles

(***************************************************************************)
(* The two CapSet formatters applied to a CapSet.                          *)
(***************************************************************************)
FormatVec ==
    /\ pc = "format"
    /\ policy' = Append(policy, ProgramResult(capset, files, method_list, EnvVars))
    /\ pc' = "vec"
    /\ UNCHANGED <<aggvars, capset, effective, strace_log, sys_idx, access,
                   entry_idx, files, dbus_json, method_list, cap_string>>
    /\ UNCHANGED envvars

FormatString ==
    /\ pc = "format"
    /\ cap_string' = capset_to_string(capset)
    /\ pc' = "string"
    /\ UNCHANGED <<aggvars, capset, effective, strace_log, sys_idx, access,
                   entry_idx, files, dbus_json, method_list, policy>>
    /\ UNCHANGED envvars

NextFormat == FormatVec \/ FormatString

(***************************************************************************)
(* bus.rs: the end of run_dbus_monitor, the join of Memory.owners and      *)
(* Memory.requests into the map namespace -> [DbusMsg] that is written to  *)
(* DBUS_JSON_PATH.                                                         *)
(***************************************************************************)
\* for owner in owners: extend with requests[owner], when there is one
RECURSIVE OwnersRequests(_, _)
OwnersRequests(names, reqs) ==
    IF names = << >> THEN << >>
    ELSE (IF Head(names) \in DOMAIN reqs THEN reqs[Head(names)] ELSE << >>)
             \o OwnersRequests(Tail(names), reqs)

\* a namespace gets a key only when one of its owners has requests
nsid_to_requests(own, reqs) ==
    [ns \in {n \in DOMAIN own :
                \E i \in 1..Len(own[n]) : own[n][i] \in DOMAIN reqs} |->
        OwnersRequests(own[ns], reqs)]

(***************************************************************************)
(* The packed 64-bit fields in full width.  A u32 is the pair of its       *)
(* 16-bit halves and a u64 the tuple of its four 16-bit quarters, least    *)
(* significant first; shifts by 32, masks, ORs and casts are computed on   *)
(* them as the machine computes them.                                      *)
(***************************************************************************)
Limb == 65536

RECURSIVE BitOp(_, _, _, _)
\* bitwise `|` (op = "or") or `&` (op = "and") of two values of n bits
BitOp(op, a, b, n) ==
    IF n = 0 THEN 0
    ELSE LET x == a % 2
             y == b % 2
             bit == IF op = "or" THEN (IF x + y > 0 THEN 1 ELSE 0)
                                 ELSE (IF x + y = 2 THEN 1 ELSE 0)
         IN bit + 2 * BitOp(op, a \div 2, b \div 2, n - 1)

U64Or(v, w) == [i \in 1..4 |-> BitOp("or", v[i], w[i], 16)]
U64And(v, w) == [i \in 1..4 |-> BitOp("and", v[i], w[i], 16)]

\* Into::<u64>::into(x) of a u32
U64FromU32(x) == << x[1], x[2], 0, 0 >>

\* w << 32: the upper half is shifted out
Shl32(w) == << 0, 0, w[1], w[2] >>

\* (mutant) a shift by 16
Shr32_By16(w) == << w[2], w[3], w[4], 0 >>

\* w >> 32
Shr32(w) == << w[3], w[4], 0, 0 >>

\* w as u32
U64AsU32(w) == << w[1], w[2] >>

\* 0xffffffff
MaskLow32 == << Limb - 1, Limb - 1, 0, 0 >>

\* try_capable: Into::<u64>::into(parent) << 32 | Into::<u64>::into(ns)
pack_pinum_inum(parent_ns, ns) == U64Or(Shl32(U64FromU32(parent_ns)), U64FromU32(ns))

\* bpf_get_current_uid_gid: gid << 32 | uid
bpf_get_current_uid_gid(uid, gid) == U64Or(Shl32(U64FromU32(gid)), U64FromU32(uid))

\* extract_ns on the full word: (ns, parent_ns)
extract_ns_u64(pinum_inum) ==
    << U64AsU32(U64And(pinum_inum, MaskLow32)), U64AsU32(Shr32(pinum_inum)) >>

\* the drain: uid = uid_gid as u32, gid = (uid_gid >> 32) as u32
split_uid_gid(uid_gid) == << U64AsU32(uid_gid), U64AsU32(Shr32(uid_gid)) >>

Zero32 == << 0, 0 >>
Zero64 == << 0, 0, 0, 0 >>

Wire(stage, parent_ns, ns, uid, gid, pnsid_nsid, uid_gid, out) ==
    [stage |-> stage, parent_ns |-> parent_ns, ns |-> ns, uid |-> uid, gid |-> gid,
     pnsid_nsid |-> pnsid_nsid, uid_gid |-> uid_gid, out |-> out]

WireOut(ns, parent_ns, uid, gid) ==
    [ns |-> ns, parent_ns |-> parent_ns, uid |-> uid, gid |-> gid]

WireIdle ==
    wire = Wire("idle", Zero32, Zero32, Zero32, Zero32, Zero64, Zero64,
                WireOut(Zero32, Zero32, Zero32, Zero32))

\* the probe packs the inodes and reads the packed ids of the task
PackFields ==
    /\ wire.stage = "read"
    /\ wire' = [wire EXCEPT !.stage = "packed",
                            !.pnsid_nsid = pack_pinum_inum(wire.parent_ns, wire.ns),
                            !.uid_gid = bpf_get_current_uid_gid(wire.uid, wire.gid)]
    /\ UNCHANGED <<aggvars, capset, effective, polvars, pc, runvars, busvars,
                   CAPABILITIES_MAP, UID_GID_MAP, PPID_MAP, PNSID_NSID_MAP, checks,
                   probe_ret>>

\* the drain splits the words again
SplitFields ==
    /\ wire.stage = "packed"
    /\ LET nsp == extract_ns_u64(wire.pnsid_nsid)
           ids == split_uid_gid(wire.uid_gid)
       IN wire' = [wire EXCEPT !.stage = "split",
                               !.out = WireOut(nsp[1], nsp[2], ids[1], ids[2])]
    /\ UNCHANGED <<aggvars, capset, effective, polvars, pc, runvars, busvars,
                   CAPABILITIES_MAP, UID_GID_MAP, PPID_MAP, PNSID_NSID_MAP, checks,
                   probe_ret>>

NextWire == PackFields \/ SplitFields

(***************************************************************************)
(* run_command and the parent branch of main: the command, the D-Bus       *)
(* child, the termination flag, the watchdog thread and the exit code.     *)
(* A process is "running", a "zombie" (terminated, not waited for) or      *)
(* "reaped"; pending are the signals sent to it.                           *)
(***************************************************************************)
MAX_CHECK == 10

ExitStatus(kind, code) == [kind |-> kind, code |-> code]

\* ExitStatus::success
Success(status) == status.kind = "Exited" /\ status.code = 0

\* exit.code().unwrap_or(-1)
CodeOrMinusOne(status) == IF status.kind = "Exited" THEN status.code ELSE -1

\* the exit code of a Rust process whose main thread panicked
PanicExitCode == 101

Exited(code) == [state |-> "exited", code |-> code]

\* the ways the command can terminate now: by itself with a code, or by a
\* pending signal it does not ignore (SIGKILL = 9 cannot be ignored,
\* SIGINT = 2 can)
CommandOutcomes ==
    {ExitStatus("Exited", 0), ExitStatus("Exited", 3)}
        \cup (IF "SIGKILL" \in cmd.pending
              THEN {ExitStatus("Signaled", 9)} ELSE {})
        \cup (IF "SIGINT" \in cmd.pending /\ ~cmd.ignores_int
              THEN {ExitStatus("Signaled", 2)} ELSE {})

\* the strace wrapper's log for the run
RunLogs ==
    {[kind |-> "Absent", syscalls |-> << >>],
     [kind |-> "Log", syscalls |-> << >>],
     [kind |-> "Log", syscalls |-> << Syscall("ptrace", <<"PTRACE_TRACEME">>, "None") >>]}

\* environment: the command terminates; its log is what strace wrote
CommandExits ==
    /\ cmd.state = "running"
    /\ \E status \in CommandOutcomes :
           cmd' = [cmd EXCEPT !.state = "zombie", !.status = status]
    /\ strace_log' \in RunLogs
    /\ UNCHANGED <<aggvars, capset, effective, sys_idx, access, entry_idx, files,
                   dbus_json, method_list, policy, cap_string, pc, term, wd_pc,
                   wd_i, child_lock, dbus_child, tool, kernvars, busvars>>

\* environment: a signal of TERM_SIGNALS reaches the tool; the registered
\* flag is set
Terminate ==
    /\ tool.state = "running"
    /\ ~term
    /\ term' = TRUE
    /\ UNCHANGED <<aggvars, capset, effective, polvars, pc, cmd, wd_pc, wd_i,
                   child_lock, dbus_child, tool, kernvars, busvars>>

\* the watchdog leaves `while !term.load(..)` and sends SIGINT
WatchdogSignal ==
    /\ tool.state = "running"
    /\ wd_pc = "sleep"
    /\ term
    /\ IF cmd.state = "reaped"
       THEN \* kill fails with ESRCH: expect panics the thread
            wd_pc' = "panic" /\ cmd' = cmd
       ELSE /\ cmd' = [cmd EXCEPT !.pending = @ \cup {"SIGINT"}]
            /\ wd_pc' = "poll_int"
    /\ wd_i' = 0
    /\ UNCHANGED <<aggvars, capset, effective, polvars, pc, term, child_lock,
                   dbus_child, tool, kernvars, busvars>>

\* One evaluation of `waitpid(nixpid, WNOHANG) == StillAlive && i < MAX_CHECK`
\* with the body it guards: of the `if` after SIGINT (wd_pc = "poll_int") or
\* of the `while` after SIGKILL (wd_pc = "poll_kill", followed by
\* `if i >= MAX_CHECK { exit(-1) }` when the loop ends).
WatchdogPoll ==
    /\ tool.state = "running"
    /\ wd_pc \in {"poll_int", "poll_kill"}
    /\ LET alive == cmd.state = "running"
           again == alive /\ wd_i < MAX_CHECK
           i == IF again THEN wd_i + 1 ELSE wd_i
       IN /\ wd_i' = i
          /\ cmd' = IF cmd.state = "zombie"
                    THEN [cmd EXCEPT !.state = "reaped"] ELSE cmd
          /\ IF cmd.state = "reaped"
             THEN \* waitpid fails with ECHILD: expect panics the thread
                  wd_pc' = "panic" /\ tool' = tool
             ELSE IF wd_pc = "poll_int"
             THEN wd_pc' = "escalate" /\ tool' = tool
             ELSE IF again
             THEN wd_pc' = "poll_kill" /\ tool' = tool
             ELSE IF i >= MAX_CHECK
             THEN wd_pc' = "done" /\ tool' = Exited(-1)
             ELSE wd_pc' = "done" /\ tool' = tool
    /\ UNCHANGED <<aggvars, capset, effective, polvars, pc, term, child_lock,
                   dbus_child, kernvars, busvars>>

\* `if i >= MAX_CHECK { child.try_lock().expect(..).kill().expect(..); i = 0; ..`
WatchdogEscalate ==
    /\ tool.state = "running"
    /\ wd_pc = "escalate"
    /\ IF wd_i >= MAX_CHECK
       THEN IF child_lock # "free" \/ cmd.state = "reaped"
            THEN wd_pc' = "panic" /\ wd_i' = wd_i /\ cmd' = cmd
            ELSE /\ cmd' = [cmd EXCEPT !.pending = @ \cup {"SIGKILL"}]
                 /\ wd_i' = 0
                 /\ wd_pc' = "poll_kill"
       ELSE wd_pc' = "done" /\ wd_i' = wd_i /\ cmd' = cmd
    /\ UNCHANGED <<aggvars, capset, effective, polvars, pc, term, child_lock,
                   dbus_child, tool, kernvars, busvars>>

\* main, in Child::wait with the Mutex held: the command is waited for, or
\* the wait fails because the watchdog's waitpid took the status (expect)
RunCommandWait_NoWait ==
    /\ tool.state = "running"
    /\ pc = "wait"
    /\ child_lock' = "free"
    /\ cmd' = cmd
    /\ pc' = "kill_dbus"
    /\ UNCHANGED <<aggvars, capset, effective, polvars, term, wd_pc, wd_i,
                   dbus_child, tool, kernvars, busvars>>

RunCommandWait ==
    /\ tool.state = "running"
    /\ pc = "wait"
    /\ cmd.state \in {"zombie", "reaped"}
    /\ child_lock' = "free"
    /\ IF cmd.state = "zombie"
       THEN cmd' = [cmd EXCEPT !.state = "reaped"] /\ pc' = "kill_dbus"
       ELSE cmd' = cmd /\ pc' = "panic"
    /\ UNCHANGED <<aggvars, capset, effective, polvars, term, wd_pc, wd_i,
                   dbus_child, tool, kernvars, busvars>>

\* kill(child, SIGINT).expect(..)
KillDbusChild ==
    /\ tool.state = "running"
    /\ pc = "kill_dbus"
    /\ dbus_child' = [dbus_child EXCEPT !.pending = @ \cup {"SIGINT"}]
    /\ pc' = "wait_dbus"
    /\ UNCHANGED <<aggvars, capset, effective, polvars, term, cmd, wd_pc, wd_i,
                   child_lock, tool, kernvars, busvars>>

\* The D-Bus child terminates.  With SIGINT pending its monitor loop ends and
\* the join of its Memory is written to DBUS_JSON_PATH; when the monitor
\* failed (no bus, no right to monitor) nothing is written.
DbusChildExits ==
    /\ dbus_child.state = "running"
    /\ dbus_child' = [dbus_child EXCEPT !.state = "zombie"]
    /\ \/ dbus_json' = dbus_json
       \/ /\ "SIGINT" \in dbus_child.pending
          /\ dbus_json' = [kind |-> "Json",
                           content |-> nsid_to_requests(owners, bus_requests)]
    /\ dbus_pc' = "done"
    /\ UNCHANGED <<aggvars, capset, effective, strace_log, sys_idx, access,
                   entry_idx, files, method_list, policy, cap_string, pc, term,
                   cmd, wd_pc, wd_i, child_lock, tool, kernvars,
                   credentials_requests, messages, owners, bus_requests, cancel>>

\* waitpid(child, Some(WaitPidFlag::empty()))?
WaitDbusChild ==
    /\ tool.state = "running"
    /\ pc = "wait_dbus"
    /\ dbus_child.state = "zombie"
    /\ dbus_child' = [dbus_child EXCEPT !.state = "reaped"]
    /\ pc' = "enter"
    /\ UNCHANGED <<aggvars, capset, effective, polvars, term, cmd, wd_pc, wd_i,
                   child_lock, tool, kernvars, busvars>>

\* program_capabilities is called: setbpf_effective(true)
EnterProgramCapabilities ==
    /\ tool.state = "running"
    /\ pc = "enter"
    /\ effective' = effective \cup {"BPF"}
    /\ pc' = "drain"
    /\ UNCHANGED <<aggvars, capset, polvars, envvars>>

\* the end of main: process::exit(exit.code().unwrap_or(-1)) when the
\* command failed, Ok(()) otherwise; a panic of the main thread ends the
\* process with code 101
Exit ==
    /\ tool.state = "running"
    /\ pc \in {"done", "panic"}
    /\ tool' = IF pc = "panic" THEN Exited(PanicExitCode)
               ELSE IF Success(cmd.status) THEN Exited(0)
               ELSE Exited(CodeOrMinusOne(cmd.status))
    /\ pc' = "exited"
    /\ UNCHANGED <<aggvars, capset, effective, polvars, term, cmd, wd_pc, wd_i,
                   child_lock, dbus_child, kernvars, busvars>>

(***************************************************************************)
(* The D-Bus child step by step: ForkResult::Child of main.                *)
(* dbus_pc: "register" (handlers not yet installed), "loop" (the monitor   *)
(* loop of run_dbus_monitor), "create", "write", "exit" (before            *)
(* File::create, write!, exit(0)), and, once terminated, "exited_0",       *)
(* "exited_1", "signaled"; "done" where the child is not followed.         *)
(***************************************************************************)
\* (mutant) flag::register is registered before register_conditional_shutdown
SignalActions_FlagFirst(flag) == [exit |-> TRUE, cancel |-> TRUE]

\* The actions registered for a termination signal, run in the order of
\* their registration: register_conditional_shutdown(sig, 1, cancel), then
\* flag::register(sig, cancel).
SignalActions(flag) == [exit |-> flag, cancel |-> TRUE]

\* the `for sig in TERM_SIGNALS` loop and setuid(0)
RegisterHandlers ==
    /\ dbus_child.state = "running"
    /\ dbus_pc = "register"
    /\ dbus_pc' = "loop"
    /\ UNCHANGED <<aggvars, capset, effective, polvars, pc, runvars, kernvars,
                   credentials_requests, messages, owners, bus_requests, cancel>>

\* A pending signal is delivered to the D-Bus child: the default disposition
\* terminates it while no handler is installed, the registered actions run
\* otherwise.
DeliverSignal ==
    /\ dbus_child.state = "running"
    /\ \E sig \in dbus_child.pending :
           LET rest == dbus_child.pending \ {sig}
               act == SignalActions(cancel)
           IN IF dbus_pc = "register"
              THEN /\ dbus_child' = [state |-> "zombie", pending |-> rest]
                   /\ dbus_pc' = "signaled"
                   /\ cancel' = cancel
              ELSE IF act.exit
              THEN /\ dbus_child' = [state |-> "zombie", pending |-> rest]
                   /\ dbus_pc' = "exited_1"
                   /\ cancel' = cancel
              ELSE /\ dbus_child' = [state |-> "running", pending |-> rest]
                   /\ dbus_pc' = dbus_pc
                   /\ cancel' = act.cancel
    /\ UNCHANGED <<aggvars, capset, effective, polvars, pc, term, cmd, wd_pc,
                   wd_i, child_lock, tool, kernvars, credentials_requests,
                   messages, owners, bus_requests>>

\* `while cancel == false { conn.process(1000 ms) }` ends; the join is built
MonitorLoopEnds ==
    /\ dbus_child.state = "running"
    /\ dbus_pc = "loop"
    /\ cancel
    /\ dbus_pc' = "create"
    /\ UNCHANGED <<aggvars, capset, effective, polvars, pc, runvars, kernvars,
                   credentials_requests, messages, owners, bus_requests, cancel>>

\* File::create(DBUS_JSON_PATH): the file exists and is empty
CreateDbusJson ==
    /\ dbus_child.state = "running"
    /\ dbus_pc = "create"
    /\ dbus_json' = [kind |-> "Partial", content |-> << >>]
    /\ dbus_pc' = "write"
    /\ UNCHANGED <<aggvars, capset, effective, strace_log, sys_idx, access,
                   entry_idx, files, method_list, policy, cap_string, pc,
                   runvars, kernvars, credentials_requests, messages, owners,
                   bus_requests, cancel>>

\* write!(file, "{}", serde_json::to_string(&res)) and flush
WriteDbusJson ==
    /\ dbus_child.state = "running"
    /\ dbus_pc = "write"
    /\ dbus_json' = [kind |-> "Json",
                     content |-> nsid_to_requests(owners, bus_requests)]
    /\ dbus_pc' = "exit"
    /\ UNCHANGED <<aggvars, capset, effective, strace_log, sys_idx, access,
                   entry_idx, files, method_list, policy, cap_string, pc,
                   runvars, kernvars, credentials_requests, messages, owners,
                   bus_requests, cancel>>

\* exit(0)
DbusChildExit0 ==
    /\ dbus_child.state = "running"
    /\ dbus_pc = "exit"
    /\ dbus_child' = [dbus_child EXCEPT !.state = "zombie"]
    /\ dbus_pc' = "exited_0"
    /\ UNCHANGED <<aggvars, capset, effective, polvars, pc, term, cmd, wd_pc,
                   wd_i, child_lock, tool, kernvars, credentials_requests,
                   messages, owners, bus_requests, cancel>>

\* environment: the user's SIGINT reaches the foreground process group: the
\* tool (its term flag is set), the D-Bus child and the command
UserInterrupt ==
    /\ tool.state = "running"
    /\ ~term
    /\ term' = TRUE
    /\ dbus_child' = IF dbus_child.state = "running"
                     THEN [dbus_child EXCEPT !.pending = @ \cup {"SIGINT"}]
                     ELSE dbus_child
    /\ cmd' = IF cmd.state = "running"
              THEN [cmd EXCEPT !.pending = @ \cup {"SIGINT"}]
              ELSE cmd
    /\ UNCHANGED <<aggvars, capset, effective, polvars, pc, wd_pc, wd_i,
                   child_lock, tool, kernvars, busvars>>

DbusChildStep ==
    \/ RegisterHandlers \/ DeliverSignal \/ MonitorLoopEnds
    \/ CreateDbusJson \/ WriteDbusJson \/ DbusChildExit0

NextCancel ==
    \/ DbusChildStep
    \/ UserInterrupt
    \/ CommandExits
    \/ RunCommandWait \/ KillDbusChild \/ WaitDbusChild

NextWatchdog == Terminate \/ WatchdogSignal \/ WatchdogPoll \/ WatchdogEscalate

NextRun ==
    \/ CommandExits \/ DbusChildExits
    \/ NextWatchdog
    \/ RunCommandWait \/ KillDbusChild \/ WaitDbusChild
    \/ EnterProgramCapabilities
    \/ (tool.state = "running" /\ Next)
    \/ Exit

\* the state of the run once the command and the D-Bus child are reaped
RunOver ==
    /\ term = FALSE
    /\ cmd = [state |-> "reaped", status |-> ExitStatus("Exited", 0),
              ignores_int |-> FALSE, pending |-> {}]
    /\ wd_pc = "sleep"
    /\ wd_i = 0
    /\ child_lock = "free"
    /\ dbus_child = [state |-> "reaped", pending |-> {"SIGINT"}]
    /\ tool = [state |-> "running", code |-> 0]

\* the probe's maps as loaded
ProbeIdle ==
    /\ CAPABILITIES_MAP = << >>
    /\ UID_GID_MAP = << >>
    /\ PPID_MAP = << >>
    /\ PNSID_NSID_MAP = << >>
    /\ checks = << >>
    /\ probe_ret = [kind |-> "None", value |-> 0]
    /\ WireIdle

\* Memory::default()
MemoryDefault ==
    /\ credentials_requests = << >>
    /\ messages = << >>
    /\ owners = << >>
    /\ bus_requests = << >>
    /\ cancel = FALSE

EnvIdle == RunOver /\ ProbeIdle /\ MemoryDefault /\ dbus_pc = "done"

(***************************************************************************)
(* capable-ebpf: the kprobe on cap_capable.  A u64 of capability bits is   *)
(* kept as the set of its set bit positions.                               *)
(***************************************************************************)
MaxChecks == 2

\* the values of `(1 << arg) as u64`.  The literal 1 is an i32: the shift
\* sets bit arg for arg < 31; for arg = 31 it gives i32::MIN, which the cast
\* sign-extends to the bits 31..63; for arg >= 32 the shift overflows: a
\* build without overflow checks shifts by arg mod 32, a build with them
\* panics ("Diverges": the panic handler is unreachable_unchecked)
ShlAsU64(arg) ==
    LET wrapped(n) == [kind |-> "Value", bits |-> IF n < 31 THEN {n} ELSE 31..63]
    IN IF arg < 32 THEN {wrapped(arg)}
       ELSE {wrapped(arg % 32), [kind |-> "Diverges", bits |-> {}]}

\* HashMap::insert(&key, &value, 0)
HashMap_insert(map, key, value) ==
    [k \in DOMAIN map \cup {key} |-> IF k = key THEN value ELSE map[k]]

\* one capability check of a task, as the probe reads it
Check(pid, ppid, uid_gid, pnsid_nsid, capability) ==
    [pid |-> pid, ppid |-> ppid, uid_gid |-> uid_gid,
     pnsid_nsid |-> pnsid_nsid, capability |-> capability]

\* what `capable` returns: "Ok" with try_capable's 0, "Err" with the error
\* of the failed read, or no return at all ("Diverges")
ProbeReturn(kind, value) == [kind |-> kind, value |-> value]

\* try_capable with every kernel read succeeding
TryCapable(c) ==
    /\ Len(checks) < MaxChecks
    /\ checks' = Append(checks, c)
    /\ \E cap \in ShlAsU64(c.capability) :
           IF cap.kind = "Diverges"
           THEN /\ probe_ret' = ProbeReturn("Diverges", 0)
                /\ UNCHANGED <<CAPABILITIES_MAP, UID_GID_MAP, PPID_MAP, PNSID_NSID_MAP>>
           ELSE LET capval == IF c.pid \in DOMAIN CAPABILITIES_MAP
                              THEN CAPABILITIES_MAP[c.pid] ELSE {}
                IN /\ UID_GID_MAP' = HashMap_insert(UID_GID_MAP, c.pid, c.uid_gid)
                   /\ PNSID_NSID_MAP' = HashMap_insert(PNSID_NSID_MAP, c.pid, c.pnsid_nsid)
                   /\ PPID_MAP' = HashMap_insert(PPID_MAP, c.pid, c.ppid)
                   /\ CAPABILITIES_MAP' =
                          HashMap_insert(CAPABILITIES_MAP, c.pid, capval \cup cap.bits)
                   /\ probe_ret' = ProbeReturn("Ok", 0)
    /\ UNCHANGED <<aggvars, capset, effective, polvars, pc, runvars, busvars, wire>>

\* the kernel reads of try_capable, in program order; the shift of the
\* capability argument stands between the read of pid and the reads of the
\* namespace inodes
ReadsBeforeShift == {"task", "ppid", "pid"}
ReadsAfterShift == {"parent_ns_inode", "ns_inode"}

\* the errors bpf_probe_read_kernel returns (-EFAULT, -EPERM)
ReadErrors == {0 - 14, 0 - 1}

\* `ret as u32` of an i64, as its two 16-bit halves (low half first)
AsU32(ret) == << ret % 65536, (ret \div 65536) % 65536 >>

\* (mutant) the uid is inserted before the reads of the namespace inodes
ReadFailure_InsertsFirst(c, read) ==
    IF read \in ReadsAfterShift
    THEN /\ UID_GID_MAP' = HashMap_insert(UID_GID_MAP, c.pid, c.uid_gid)
         /\ UNCHANGED <<CAPABILITIES_MAP, PPID_MAP, PNSID_NSID_MAP>>
    ELSE UNCHANGED <<CAPABILITIES_MAP, UID_GID_MAP, PPID_MAP, PNSID_NSID_MAP>>

\* the maps after the `?` of a failed read: every insert comes after the
\* last read
ReadFailure(c, read) ==
    UNCHANGED <<CAPABILITIES_MAP, UID_GID_MAP, PPID_MAP, PNSID_NSID_MAP>>

\* try_capable with the kernel read `read` failing with `err`: the `?`
\* returns Err(err) and capable returns `err as u32`
TryCapableFails(c, read, err) ==
    /\ Len(checks) < MaxChecks
    /\ checks' = Append(checks, c)
    /\ \E cap \in ShlAsU64(c.capability) :
           IF read \in ReadsAfterShift /\ cap.kind = "Diverges"
           THEN /\ probe_ret' = ProbeReturn("Diverges", 0)
                /\ UNCHANGED <<CAPABILITIES_MAP, UID_GID_MAP, PPID_MAP, PNSID_NSID_MAP>>
           ELSE /\ probe_ret' = ProbeReturn("Err", AsU32(err))
                /\ ReadFailure(c, read)
    /\ UNCHANGED <<aggvars, capset, effective, polvars, pc, runvars, busvars, wire>>

(***************************************************************************)
(* Workloads: the Requests a stream is drawn from.                         *)
(***************************************************************************)
Req(pid, gid, parent_ns, ns, capability, stackid) ==
    [pid |-> pid, ppid |-> 1, uid_gid |-> Word(gid, 1000),
     pnsid_nsid |-> Word(parent_ns, ns), capability |-> capability,
     stackid |-> stackid]

HostNs == 1
CmdNs == 2
InnerNs == 3
Namespaces == {HostNs, CmdNs, InnerNs}

RECURSIVE SeqsUpTo(_, _)
SeqsUpTo(S, n) ==
    IF n = 0 THEN {<< >>}
    ELSE LET shorter == SeqsUpTo(S, n - 1)
         IN shorter \cup {Append(s, x) : s \in {t \in shorter : Len(t) = n - 1}, x \in S}

\* every capability index the table knows and one it does not, on every stack
FilterRequests ==
    {Req(100, 0, HostNs, CmdNs, c, sid) :
        c \in 0..41, sid \in DOMAIN stacktrace_map \cup {MissingStackId}}

\* every (parent_ns, ns) pair, with a kept and a filtered capability
TreeRequests ==
    {Req(100, 0, p, n, c, 0) : p \in Namespaces, n \in Namespaces,
                                c \in {CapAsU8("CHOWN"), CapAsU8("DAC_OVERRIDE")}}
    \cup {Req(100, 0, CmdNs, InnerNs, CapAsU8("NET_BIND_SERVICE"), 0)}

\* one process seen with two gids and in two places of the namespace tree,
\* raising a kept and a stack-filtered capability; one Request more whose
\* capability is kept on its stack, and one whose stack is missing
KeysRequests ==
    {Req(100, g, pn[1], pn[2], cs[1], cs[2]) :
        g \in {0, 1},
        pn \in {<<HostNs, CmdNs>>, <<CmdNs, CmdNs>>},
        cs \in {<<CapAsU8("CHOWN"), 0>>, <<CapAsU8("DAC_READ_SEARCH"), 1>>}}
    \cup {Req(100, 0, CmdNs, CmdNs, CapAsU8("DAC_READ_SEARCH"), 0),
          Req(100, 0, HostNs, CmdNs, CapAsU8("KILL"), MissingStackId)}

\* program_capabilities is entered, its Requests waiting in the map
AggStart(requests, maxlen, hashers) ==
    /\ stream \in SeqsUpTo(requests, maxlen)
    /\ queue = stream
    /\ collide \in hashers
    /\ set_entry = {}
    /\ nsinode = CmdNs
    /\ nsid_caps = << >>
    /\ graph = << >>
    /\ capset = EmptyCapSet
    \* setbpf_effective(true) on entry of program_capabilities
    /\ effective = {"BPF"}
    /\ pc = "drain"

\* neither a strace log nor a D-Bus file
NoLogs ==
    /\ strace_log = [kind |-> "Absent", syscalls |-> << >>]
    /\ dbus_json = [kind |-> "Absent", content |-> << >>]

\* nothing assembled yet
AssemblerStart ==
    /\ sys_idx = 0
    /\ access = << >>
    /\ entry_idx = 0
    /\ files = << >>
    /\ method_list = << >>
    /\ policy = << >>
    /\ cap_string = ""

InitAgg(requests, maxlen, hashers) ==
    /\ AggStart(requests, maxlen, hashers)
    /\ NoLogs
    /\ AssemblerStart
    /\ EnvIdle

\* (the gid is the same in every Request of the first two workloads, so the
\* hasher's behaviour on keys differing in gid is never consulted)
InitFilter == InitAgg(FilterRequests, MaxFilterLen, {FALSE})
InitTree == InitAgg(TreeRequests, MaxTreeLen, {FALSE})
InitKeys == InitAgg(KeysRequests, MaxKeysLen, BOOLEAN)

SpecFilter == InitFilter /\ [][NextAgg]_vars
SpecTree == InitTree /\ [][NextAgg]_vars
SpecKeys == InitKeys /\ [][NextAgg]_vars

(***************************************************************************)
(* The policy workload: a Request stream, a strace log and a D-Bus file.   *)
(***************************************************************************)
\* the command's namespace raising a filtered capability, its child
\* namespace raising a filtered and a kept one
PolicyRequests ==
    {Req(100, 0, CmdNs, CmdNs, CapAsU8("SYS_PTRACE"), 0),
     Req(101, 0, CmdNs, InnerNs, CapAsU8("DAC_OVERRIDE"), 0),
     Req(101, 0, CmdNs, InnerNs, CapAsU8("NET_ADMIN"), 0)}

\* ptrace under two spellings of its name, opens of an owner-only and of a
\* world-readable file, a creation, and a call logged without arguments
LogSyscalls ==
    {Syscall("ptrace", <<"PTRACE_TRACEME">>, "None"),
     Syscall(" ptrace", <<"PTRACE_SEIZE", "101">>, "None"),
     Syscall("open", <<"/priv/key", "O_RDONLY">>, "None"),
     Syscall("open", <<"/etc/passwd", "O_RDONLY|O_CLOEXEC">>, "None"),
     Syscall("openat", <<"AT_FDCWD", "/priv/key", "O_WRONLY|O_CREAT", "0600">>,
             "None"),
     Syscall("mkdir", <<"/tmp/new", "0755">>, "None"),
     Syscall("unlink", << >>, "None")}

StraceFile(kind, syscalls) == [kind |-> kind, syscalls |-> syscalls]

StraceLogs ==
    {StraceFile("Absent", << >>), StraceFile("Garbage", << >>)}
        \cup {StraceFile("Log", s) : s \in SeqsUpTo(LogSyscalls, MaxLogLen)}

DbusFile(kind, content) == [kind |-> kind, content |-> content]

\* no file; a file with the command's namespace; a file without it
DbusFiles ==
    {DbusFile("Absent", << >>),
     DbusFile("Json", CmdNs :> << DbusMsg("MethodCall", "org.freedesktop.DBus", "Hello"),
                                  DbusMsg("Signal", "org.freedesktop.DBus", "None") >>),
     DbusFile("Json", HostNs :> << >>)}

Init ==
    /\ AggStart(PolicyRequests, MaxPolicyLen, {FALSE})
    /\ strace_log \in StraceLogs
    /\ dbus_json \in DbusFiles
    /\ AssemblerStart
    /\ EnvIdle

Spec == Init /\ [][Next]_vars

(***************************************************************************)
(* The files-map workload: the merge loop on any sequence of entries.      *)
(***************************************************************************)
FileEntries ==
    {SyscallAccessEntry(p, a, "open") :
        p \in {"/priv/key", "/tmp/new"}, a \in (SUBSET {"R", "W", "X"}) \ {{}}}

AggIdle ==
    /\ stream = << >>
    /\ queue = << >>
    /\ collide = FALSE
    /\ set_entry = {}
    /\ nsinode = CmdNs
    /\ nsid_caps = << >>
    /\ graph = << >>
    /\ effective = {}

InitFiles ==
    /\ AggIdle
    /\ capset = EmptyCapSet
    /\ NoLogs
    /\ sys_idx = 0
    /\ access \in SeqsUpTo(FileEntries, MaxAccessLen)
    /\ entry_idx = 0
    /\ files = << >>
    /\ method_list = << >>
    /\ policy = << >>
    /\ cap_string = ""
    /\ pc = "map"
    /\ EnvIdle

SpecFiles == InitFiles /\ [][NextFiles]_vars

(***************************************************************************)
(* The formatter workload: the full CapSet, the empty one, and for every   *)
(* bit the singleton, the set of the bits up to it and the full set        *)
(* without it.                                                             *)
(***************************************************************************)
FormatCapSets ==
    {FullCapSet, EmptyCapSet}
        \cup {{b} : b \in FullCapSet}
        \cup {FullCapSet \ {b} : b \in FullCapSet}
        \cup {{c \in FullCapSet : c <= b} : b \in FullCapSet}

InitFormat ==
    /\ AggIdle
    /\ capset \in FormatCapSets
    /\ NoLogs
    /\ AssemblerStart
    /\ pc = "format"
    /\ EnvIdle

SpecFormat == InitFormat /\ [][NextFormat]_vars

(***************************************************************************)
(* The supervision workload: the command has been spawned, main is in      *)
(* Child::wait, the watchdog sleeps, the D-Bus child monitors the bus.     *)
(***************************************************************************)
\* what the D-Bus child has in its Memory when it stops: nothing, or a bus
\* name of the command's namespace with one method call
RunMemories ==
    {[owners |-> << >>, requests |-> << >>],
     [owners |-> CmdNs :> << ":1.5" >>,
      requests |-> ":1.5" :> << DbusMsg("MethodCall", "org.freedesktop.login1.Manager",
                                        "Inhibit") >>]}

\* the Requests the probe has queued by the end of the run
RunStreams == {<< >>, << Req(101, 0, CmdNs, InnerNs, CapAsU8("NET_ADMIN"), 0) >>}

InitRun ==
    /\ stream \in RunStreams
    /\ queue = stream
    /\ collide = FALSE
    /\ set_entry = {}
    /\ nsinode = CmdNs
    /\ nsid_caps = << >>
    /\ graph = << >>
    /\ capset = EmptyCapSet
    /\ effective = {}
    /\ NoLogs
    /\ AssemblerStart
    /\ pc = "wait"
    /\ term = FALSE
    /\ \E ignores \in BOOLEAN :
           cmd = [state |-> "running", status |-> ExitStatus("Exited", 0),
                  ignores_int |-> ignores, pending |-> {}]
    /\ wd_pc = "sleep"
    /\ wd_i = 0
    /\ child_lock = "main"
    /\ dbus_child = [state |-> "running", pending |-> {}]
    /\ tool = [state |-> "running", code |-> 0]
    /\ ProbeIdle
    /\ credentials_requests = << >>
    /\ messages = << >>
    /\ \E m \in RunMemories : owners = m.owners /\ bus_requests = m.requests
    /\ cancel = FALSE
    /\ dbus_pc = "loop"

SpecRun == InitRun /\ [][NextRun]_vars

(***************************************************************************)
(* The table-skew workload: Requests with capability indices the table of  *)
(* get_cap does not have, among Requests it has, followed by the whole     *)
(* policy assembly.                                                        *)
(***************************************************************************)
MaxSkewLen == 2

\* a kept capability; the first index above the table and the greatest u8,
\* on resolved stacks; the first index above the table on a missing stack
SkewRequests ==
    {Req(100, 0, CmdNs, CmdNs, CapAsU8("NET_ADMIN"), 0),
     Req(100, 0, CmdNs, CmdNs, 41, 0),
     Req(101, 0, CmdNs, InnerNs, 255, 2),
     Req(101, 0, CmdNs, InnerNs, 41, MissingStackId)}

SkewLogs ==
    {StraceFile("Absent", << >>),
     StraceFile("Log", << Syscall("open", <<"/priv/key", "O_RDONLY">>, "None") >>)}

InitSkew ==
    /\ AggStart(SkewRequests, MaxSkewLen, {FALSE})
    /\ strace_log \in SkewLogs
    /\ dbus_json \in DbusFiles
    /\ AssemblerStart
    /\ EnvIdle

SpecSkew == InitSkew /\ [][Next]_vars

(***************************************************************************)
(* The probe workload: capability checks while the command runs.           *)
(***************************************************************************)
\* checks of two pids, of a pid under two owners and in two namespaces, with
\* a capability below 31, capability 31 and one above 31
ProbeChecks ==
    {Check(pid, 1, Word(0, uid), pn, c) :
        pid \in {100, 101}, uid \in {0, 1000},
        pn \in {Word(HostNs, CmdNs), Word(CmdNs, InnerNs)},
        c \in {CapAsU8("NET_ADMIN"), CapAsU8("SETFCAP"), CapAsU8("CHECKPOINT_RESTORE")}}

Capable == \E c \in ProbeChecks : TryCapable(c)

CapableFails ==
    \E c \in ProbeChecks, read \in ReadsBeforeShift \cup ReadsAfterShift,
       err \in ReadErrors : TryCapableFails(c, read, err)

InitProbe ==
    /\ AggIdle
    /\ capset = EmptyCapSet
    /\ NoLogs
    /\ AssemblerStart
    /\ pc = "wait"
    /\ term = FALSE
    /\ cmd = [state |-> "running", status |-> ExitStatus("Exited", 0),
              ignores_int |-> FALSE, pending |-> {}]
    /\ wd_pc = "sleep"
    /\ wd_i = 0
    /\ child_lock = "main"
    /\ dbus_child = [state |-> "running", pending |-> {}]
    /\ tool = [state |-> "running", code |-> 0]
    /\ ProbeIdle
    /\ MemoryDefault
    /\ dbus_pc = "loop"

NextProbe == Capable \/ CapableFails

SpecProbe == InitProbe /\ [][NextProbe]_vars

(***************************************************************************)
(* bus.rs: handle_message, the callback of the D-Bus monitor.  A Message   *)
(* carries its type, sender, destination, serial, reply serial, interface, *)
(* member, and what get1 reads of its body: the bus name asked about (a    *)
(* GetConnectionCredentials call) or the PID namespace of the ProcessID    *)
(* (its reply).  "None" and 0 stand for absent values.                     *)
(***************************************************************************)
MaxMessages == 3

Message(msg_type, sender, destination, serial, reply_serial, interface, member, name, pid_ns) ==
    [msg_type |-> msg_type, sender |-> sender, destination |-> destination,
     serial |-> serial, reply_serial |-> reply_serial, interface |-> interface,
     member |-> member, name |-> name, pid_ns |-> pid_ns]

MsgKey(sender, serial) == << sender, serial >>

\* the serial handle_message stores in the DbusMsg
DbusMsgSerial(msg) ==
    IF msg.msg_type = "MethodReturn" THEN msg.reply_serial ELSE msg.serial

\* the DbusMsg handle_message builds (the fields get_dbus_methods reads)
DbusMsgOf(msg) == DbusMsg(msg.msg_type, msg.interface, msg.member)

\* the three branches of handle_message on credentials_requests, owners
\* and requests
handle_message(mem, msg) ==
    LET key == MsgKey(msg.destination, DbusMsgSerial(msg))
    IN IF msg.msg_type = "MethodCall" /\ msg.member = "GetConnectionCredentials"
       THEN [mem EXCEPT !.credentials_requests =
                 HashMap_insert(@, MsgKey(msg.sender, DbusMsgSerial(msg)), msg.name)]
       ELSE IF /\ msg.msg_type = "MethodReturn"
               /\ msg.destination # "None"
               /\ key \in DOMAIN mem.credentials_requests
       THEN LET nspid == msg.pid_ns
                dbus_id == mem.credentials_requests[key]
            IN IF nspid \in DOMAIN mem.owners
               THEN IF \E i \in 1..Len(mem.owners[nspid]) : mem.owners[nspid][i] = dbus_id
                    THEN mem
                    ELSE [mem EXCEPT !.owners[nspid] = Append(@, dbus_id)]
               ELSE [mem EXCEPT !.owners = HashMap_insert(@, nspid, << dbus_id >>)]
       ELSE IF msg.msg_type = "MethodCall"
       THEN [mem EXCEPT !.requests =
                 HashMap_insert(@, msg.sender,
                     Append(IF msg.sender \in DOMAIN @ THEN @[msg.sender] ELSE << >>,
                            DbusMsgOf(msg)))]
       ELSE mem

\* the PID namespace of the process that owns a bus name
NsOfName(name) == IF name = ":1.5" THEN CmdNs ELSE HostNs

\* the next serial of a connection: one more than it has sent
NextSerial(sender) ==
    1 + Cardinality({i \in 1..Len(messages) : messages[i].sender = sender})

\* the method calls clients can make: a query of the credentials of a bus
\* name, and a call of a service with or without the interface header
ClientCalls ==
    {Message("MethodCall", snd, "org.freedesktop.DBus", NextSerial(snd), 0,
             "org.freedesktop.DBus", "GetConnectionCredentials", asked, 0) :
        snd \in {":1.5", ":1.9"}, asked \in {":1.5", ":1.6"}}
    \cup
    {Message("MethodCall", snd, "org.freedesktop.login1", NextSerial(snd), 0,
             itf, "Inhibit", "None", 0) :
        snd \in {":1.5", ":1.6"}, itf \in {"org.freedesktop.login1.Manager", "None"}}

\* the bus answers a credentials query that has not been answered yet with
\* the ProcessID of the name asked about
BusReplies ==
    {Message("MethodReturn", "org.freedesktop.DBus", k[1], NextSerial("org.freedesktop.DBus"),
             k[2], "None", "None", "None", NsOfName(credentials_requests[k])) :
        k \in {q \in DOMAIN credentials_requests :
                  ~\E i \in 1..Len(messages) :
                      /\ messages[i].msg_type = "MethodReturn"
                      /\ messages[i].destination = q[1]
                      /\ messages[i].reply_serial = q[2]}}

\* a broadcast of the bus
BusSignals ==
    {Message("Signal", "org.freedesktop.DBus", "None", NextSerial("org.freedesktop.DBus"),
             0, "org.freedesktop.DBus", "NameOwnerChanged", ":1.6", 0)}

\* the monitor receives a message: handle_message, which ends by pushing
\* the message on Memory.messages
HandleMessage ==
    /\ Len(messages) < MaxMessages
    /\ \E msg \in ClientCalls \cup BusReplies \cup BusSignals :
           LET mem == handle_message(
                          [credentials_requests |-> credentials_requests,
                           owners |-> owners, requests |-> bus_requests], msg)
           IN /\ credentials_requests' = mem.credentials_requests
              /\ owners' = mem.owners
              /\ bus_requests' = mem.requests
              /\ messages' = Append(messages, msg)
    /\ UNCHANGED <<aggvars, capset, effective, polvars, pc, runvars, kernvars,
                   cancel, dbus_pc>>

(***************************************************************************)
(* The monitor workload: the D-Bus child receives messages while the       *)
(* command runs.                                                           *)
(***************************************************************************)
InitBus == InitProbe

SpecBus == InitBus /\ [][HandleMessage]_vars

(***************************************************************************)
(* The boundary workload: namespace inodes and ids at the edges of 32 bits *)
(* go through the probe's packing and the drain's split.                   *)
(***************************************************************************)
\* 0, 1, 0xffffffff, 0x80000000, 0xf00000fc (a PID-namespace inode),
\* 0x0000ffff and 0xffff0000
U32Samples ==
    {<< 0, 0 >>, << 1, 0 >>, << 65535, 65535 >>, << 0, 32768 >>, << 252, 61440 >>,
     << 65535, 0 >>, << 0, 65535 >>}

InitWire ==
    /\ AggIdle
    /\ capset = EmptyCapSet
    /\ NoLogs
    /\ AssemblerStart
    /\ pc = "wait"
    /\ term = FALSE
    /\ cmd = [state |-> "running", status |-> ExitStatus("Exited", 0),
              ignores_int |-> FALSE, pending |-> {}]
    /\ wd_pc = "sleep"
    /\ wd_i = 0
    /\ child_lock = "main"
    /\ dbus_child = [state |-> "running", pending |-> {}]
    /\ tool = [state |-> "running", code |-> 0]
    /\ CAPABILITIES_MAP = << >>
    /\ UID_GID_MAP = << >>
    /\ PPID_MAP = << >>
    /\ PNSID_NSID_MAP = << >>
    /\ checks = << >>
    /\ probe_ret = [kind |-> "None", value |-> 0]
    /\ \E parent_ns \in U32Samples, ns \in U32Samples, uid \in U32Samples,
          gid \in U32Samples :
           wire = Wire("read", parent_ns, ns, uid, gid, Zero64, Zero64,
                       WireOut(Zero32, Zero32, Zero32, Zero32))
    /\ MemoryDefault
    /\ dbus_pc = "loop"

SpecWire == InitWire /\ [][NextWire]_vars

(***************************************************************************)
(* The mapper workload: logs of path syscalls on every file of the model,  *)
(* the open family in each of its argument layouts, with and without       *)
(* ENOENT.                                                                 *)
(***************************************************************************)
MapperPaths == {"/priv/key", "/etc/passwd", "/tmp/new", "/lnk/key", "/gone/f"}

MapperFlags == {"O_RDONLY", "O_WRONLY|O_CREAT", "O_RDWR"}

MapperReturns == {"None", "ENOENT"}

MapperSyscalls ==
    {Syscall("open", << p, f >>, r) :
        p \in MapperPaths, f \in MapperFlags, r \in MapperReturns}
    \cup {Syscall("open", << p, f, "0600" >>, r) :
        p \in MapperPaths, f \in MapperFlags, r \in MapperReturns}
    \cup {Syscall("openat", << "AT_FDCWD", p, f >>, r) :
        p \in MapperPaths, f \in MapperFlags, r \in MapperReturns}
    \cup {Syscall("openat", << "AT_FDCWD", p, f, "0600" >>, r) :
        p \in MapperPaths, f \in MapperFlags, r \in MapperReturns}
    \cup {Syscall("openat2", << "AT_FDCWD", p, f, "24" >>, r) :
        p \in MapperPaths, f \in MapperFlags, r \in MapperReturns}
    \cup {Syscall(n, << p >>, r) :
        n \in {"chdir", "unlink", "execve", "truncate"},
        p \in MapperPaths, r \in MapperReturns}
    \cup {Syscall("mkdir", << p, "0755" >>, r) :
        p \in MapperPaths, r \in MapperReturns}

InitMapper ==
    /\ AggIdle
    /\ capset = EmptyCapSet
    /\ strace_log \in {StraceFile("Log", l) : l \in SeqsUpTo(MapperSyscalls, MaxMapLen)}
    /\ dbus_json = [kind |-> "Absent", content |-> << >>]
    /\ AssemblerStart
    /\ pc = "map"
    /\ EnvIdle

SpecMapper == InitMapper /\ [][MapSyscall]_vars

(***************************************************************************)
(* The cancellation workload: the tool has forked the D-Bus child and      *)
(* launched the command; a result of an earlier run may lie at             *)
(* DBUS_JSON_PATH, which nothing removes.                                  *)
(***************************************************************************)
PreviousDbusFiles ==
    {DbusFile("Absent", << >>),
     DbusFile("Json", HostNs :> << DbusMsg("MethodCall", "org.freedesktop.DBus", "Hello") >>)}

InitCancel ==
    /\ AggIdle
    /\ capset = EmptyCapSet
    /\ effective = {}
    /\ strace_log = [kind |-> "Absent", syscalls |-> << >>]
    /\ dbus_json \in PreviousDbusFiles
    /\ AssemblerStart
    /\ pc = "wait"
    /\ term = FALSE
    /\ \E ignores \in BOOLEAN :
           cmd = [state |-> "running", status |-> ExitStatus("Exited", 0),
                  ignores_int |-> ignores, pending |-> {}]
    /\ wd_pc = "sleep"
    /\ wd_i = 0
    /\ child_lock = "main"
    /\ dbus_child = [state |-> "running", pending |-> {}]
    /\ tool = [state |-> "running", code |-> 0]
    /\ ProbeIdle
    /\ credentials_requests = << >>
    /\ messages = << >>
    /\ \E m \in RunMemories : owners = m.owners /\ bus_requests = m.requests
    /\ cancel = FALSE
    /\ dbus_pc = "register"

\* the kernel schedules the D-Bus child; conn.process returns within its
\* timeout of one second
SpecCancel == InitCancel /\ [][NextCancel]_vars /\ WF_vars(DbusChildStep)

(***************************************************************************)
(* Properties.                                                             *)
(***************************************************************************)
\* The identity of a process: the fields PartialEq compares.
Key5(e) == << e.pid, e.ppid, e.uid, e.parent_ns, e.ns >>

KeyCaps(set) == {<< Key5(e), e.capabilities >> : e \in set}

Perms(s) == {[i \in 1..Len(s) |-> s[f[i]]] : f \in Permutations(1..Len(s))}

RemoveAt(s, i) == SubSeq(s, 1, i - 1) \o SubSeq(s, i + 1, Len(s))

\* s with x put in front of position j (j = Len(s) + 1: at the end)
InsertAt(s, j, x) == SubSeq(s, 1, j - 1) \o << x >> \o SubSeq(s, j, Len(s))

\* the symbols the frames of a stack resolve to
StackSymbols(stackid) ==
    {SymbolAt(stacktrace_map[stackid][i]) : i \in 1..Len(stacktrace_map[stackid])}
        \ {"None"}

\* the rule set as the specification words it
Suppressed(c, S) ==
    \/ c = 7 /\ "cap_bprm_creds_from_file" \in S
    \/ c = 1
    \/ c = 2 /\ "may_open" \in S
    \/ c = 19

CapsOfKey(set, k) == UNION {e.capabilities : e \in {x \in set : Key5(x) = k}}

\* C1: a Request with a known capability index c and a resolved stack S adds
\* bit c to the entry of its ProcessKey iff no stack-filter rule holds of
\* (c, S); when a rule holds the entry's CapSet is left as it was.
C1_BitSetIffNotFiltered ==
    [][(pc = "drain" /\ queue # << >>) =>
        LET r == queue[Len(queue)]
            c == r.capability
            k == << r.pid, r.ppid, r.uid_gid.lo, r.pnsid_nsid.hi, r.pnsid_nsid.lo >>
        IN (c \in 0..40 /\ r.stackid \in DOMAIN stacktrace_map) =>
              /\ pc' = "drain"
              /\ \E e \in set_entry' : Key5(e) = k
              /\ CapsOfKey(set_entry', k) =
                    CapsOfKey(set_entry, k)
                        \cup (IF Suppressed(c, StackSymbols(r.stackid)) THEN {} ELSE {c})
      ]_vars

\* C1 witness: a DAC_READ_SEARCH Request with may_open in its stack has been
\* drained and left an entry without the bit
C1_Witness ==
    /\ pc = "drain" /\ queue = << >> /\ Len(stream) = 1
    /\ stream[1].capability = 2 /\ "may_open" \in StackSymbols(stream[1].stackid)
    /\ \E e \in set_entry : e.capabilities = {}

\* caps[n], empty for a namespace no entry names
CapsOfNs(n) == IF n \in DOMAIN nsid_caps THEN nsid_caps[n] ELSE {}

ChildrenOf(g, n) == IF n \in DOMAIN g THEN g[n] ELSE {}

\* the recursion of the specification: caps[n] and the unions of the children
RECURSIVE SpecUnion(_, _, _, _)
SpecUnion(n, g, caps, fuel) ==
    IF fuel = 0 THEN {}
    ELSE (IF n \in DOMAIN caps THEN caps[n] ELSE {})
            \cup UNION {SpecUnion(ch, g, caps, fuel - 1) : ch \in ChildrenOf(g, n) \ {n}}

\* C2: the union computed for root_ns is caps[root_ns] united with the
\* unions of its children other than itself.
C2_UnionContainsRootCaps ==
    pc = "strace" =>
        capset = SpecUnion(nsinode, graph, nsid_caps, Cardinality(GraphNodes(graph)) + 1)

\* the namespaces reached from n along one or more parent_ns -> ns edges
RECURSIVE ReachFrom(_, _, _)
ReachFrom(g, frontier, seen) ==
    LET next == UNION {ChildrenOf(g, n) : n \in frontier}
    IN IF next \subseteq seen THEN seen
       ELSE ReachFrom(g, next \ seen, seen \cup next)

Descendants(g, n) == ReachFrom(g, {n}, {})

\* C3: when the union returns, it contains caps[n] of every namespace n
\* reached from root_ns along one or more edges of the graph.
C3_TreeContainment ==
    pc = "strace" =>
        \A n \in Descendants(graph, nsinode) : CapsOfNs(n) \subseteq capset

\* C3 witness: the union returned and holds the capabilities of a namespace
\* that is a descendant but not a child of root_ns
C3_Witness ==
    /\ pc = "strace"
    /\ \E n \in Descendants(graph, nsinode) \ ChildrenOf(graph, nsinode) :
           CapsOfNs(n) # {} /\ CapsOfNs(n) \subseteq capset

DrainOver == pc \in {"strace", "overflow", "panic"}

\* C4: draining any permutation of the stream ends the same way: it
\* returns iff the drain of the stream returned, and then with the same
\* (ProcessKey, CapSet) pairs and the same tree union.
C4_Commutative ==
    DrainOver =>
        \A p \in Perms(stream) :
            LET a == aggregate_cap_set_entries(p, {}, collide)
            IN /\ (a.status = "ok") = (pc # "panic")
               /\ a.status = "ok" =>
                    LET u == union_all_childs(nsinode, BuildGraph(a.set),
                                              BuildNsidCaps(a.set), 1)
                    IN /\ KeyCaps(a.set) = KeyCaps(set_entry)
                       /\ u.ok = (pc = "strace")
                       /\ u.ok => u.caps = capset

\* C4 witness: a drained stream of three Requests of one process whose
\* first and last Request differ, with a non-empty result
C4_Witness ==
    /\ pc = "strace" /\ Len(stream) = 3
    /\ stream[1].capability # stream[3].capability
    /\ stream[1].uid_gid # stream[3].uid_gid
    /\ stream[1].pnsid_nsid = stream[3].pnsid_nsid
    /\ capset # {}

\* what the claim calls a Request the rule set drops
Dropped(r) ==
    /\ r.stackid \in DOMAIN stacktrace_map
    /\ Suppressed(r.capability, StackSymbols(r.stackid))

\* treats a namespace without an entry as one with an empty CapSet
SameNsCaps(a, b) ==
    \A n \in DOMAIN a \cup DOMAIN b :
        (IF n \in DOMAIN a THEN a[n] ELSE {}) = (IF n \in DOMAIN b THEN b[n] ELSE {})

\* C5: removing a Request that the rule set drops changes neither the
\* per-namespace CapSets nor the tree union of root_ns.
C5_FilterMonotone ==
    pc = "strace" =>
        \A i \in 1..Len(stream) :
            Dropped(stream[i]) =>
                LET t == program_capabilities(nsinode, RemoveAt(stream, i), collide)
                IN /\ t.status = "ok"
                   /\ SameNsCaps(t.nsid_caps, nsid_caps)
                   /\ t.caps = capset

\* C6: (a) a stream with one of its Requests repeated, anywhere, drains to
\* the same (ProcessKey, CapSet) pairs as the stream itself; (b) a step of
\* the drain never removes a bit from the CapSet of a ProcessKey.
C6_IdempotentMonotonicMerge ==
    /\ [](pc = "strace" =>
            \A i \in 1..Len(stream), j \in 1..(Len(stream) + 1) :
                LET a == aggregate_cap_set_entries(
                            InsertAt(stream, j, stream[i]), {}, collide)
                IN a.status = "ok" /\ KeyCaps(a.set) = KeyCaps(set_entry))
    /\ [][(pc = "drain" /\ pc' = "drain") =>
            \A e \in set_entry : e.capabilities \subseteq CapsOfKey(set_entry', Key5(e))]_vars

\* C6 witness: the drained stream itself holds the same Request twice and
\* the bit it set is in the result
C6_Witness ==
    /\ pc = "strace" /\ Len(stream) = 3
    /\ stream[1] = stream[3] /\ stream[2] # stream[1]
    /\ \E e \in set_entry : stream[1].capability \in e.capabilities

Range(s) == {s[i] : i \in 1..Len(s)}

\* the strace log exists and one of its syscalls is named ptrace
LogHasPtrace ==
    /\ strace_log.kind = "Log"
    /\ \E i \in 1..Len(strace_log.syscalls) :
           Trim(strace_log.syscalls[i].syscall) = "ptrace"

\* C7: the capability list of the emitted policy contains CAP_SYS_PTRACE if
\* and only if the strace log exists and contains at least one syscall named
\* ptrace; the tree union that program_capabilities returns contains neither
\* SYS_PTRACE nor DAC_OVERRIDE, whatever the Request stream.
C7_PtraceIffStraceShowsIt ==
    /\ pc = "done" =>
           ("CAP_SYS_PTRACE" \in Range(policy[1].capabilities) <=> LogHasPtrace)
    /\ pc = "strace" =>
           capset \cap {CapAsU8("SYS_PTRACE"), CapAsU8("DAC_OVERRIDE")} = {}

\* a policy with CAP_SYS_PTRACE and a kept capability of the child namespace,
\* emitted for a stream in which a process raised SYS_PTRACE itself
C7_Witness ==
    /\ pc = "done"
    /\ LogHasPtrace
    /\ {"CAP_SYS_PTRACE", "CAP_NET_ADMIN"} \subseteq Range(policy[1].capabilities)
    /\ \E i \in 1..Len(stream) : stream[i].capability = CapAsU8("SYS_PTRACE")

C9_CapabilityNaming ==
    /\ \A c \in 0..40 : get_cap(c) = CapVariants[c + 1] /\ CapAsU8(get_cap(c)) = c
    /\ \A c, d \in 0..40 : c # d => get_cap(c) # get_cap(d)
    /\ get_cap(0) = "CHOWN"
    /\ get_cap(1) = "DAC_OVERRIDE"
    /\ get_cap(40) = "CHECKPOINT_RESTORE"
    /\ pc = "vec" =>
           LET caps == policy[1].capabilities
           IN /\ Len(caps) = Cardinality(capset)
              /\ \A b \in capset :
                     Cardinality({i \in 1..Len(caps) :
                                     caps[i] = "CAP_" \o get_cap(b)}) = 1

\* forty of the forty-one capabilities formatted, the last one among them
C9_Witness ==
    /\ pc = "vec"
    /\ Cardinality(capset) = 40
    /\ policy[1].capabilities[40] = "CAP_CHECKPOINT_RESTORE"

\* the OR of the accesses of the entries of s whose path is p
OrOfPath(s, p) == UNION {s[i].access : i \in {j \in 1..Len(s) : s[j].path = p}}

\* the `for entry in access` loop on the entries s
RECURSIVE MergeAll(_, _)
MergeAll(map, s) ==
    IF s = << >> THEN map ELSE MergeAll(MergeStep(map, Head(s)), Tail(s))

\* C10: the access emitted for a path in the files map is the OR of the
\* accesses of all the entries with that path (A | B for two entries), and
\* it is the same for every order of the entries.
C10_AccessMerge ==
    pc = "done" =>
        LET emitted == policy[1].files
        IN /\ DOMAIN emitted = {access[i].path : i \in 1..Len(access)}
           /\ \A p \in DOMAIN emitted :
                  emitted[p] = Access_to_string(OrOfPath(access, p))
           /\ \A s \in Perms(access) :
                  ProgramResult(capset, MergeAll(<< >>, s), method_list,
                                EnvVars).files = emitted

\* a path seen with R by one entry and with W by another, emitted as RW
C10_Witness ==
    /\ pc = "done"
    /\ \E i, j \in 1..Len(access) :
           /\ access[i].path = access[j].path
           /\ access[i].access = {"R"}
           /\ access[j].access = {"W"}
           /\ policy[1].files[access[i].path] = "RW"

\* C11: once the termination flag is set the watchdog sends SIGINT and polls
\* the command up to MAX_CHECK times, then sends SIGKILL and polls up to
\* MAX_CHECK more times, then exits the tool with -1: when the watchdog has
\* finished and the command (which ignored SIGINT) is still running, SIGKILL
\* has been sent to it or the tool has exited with -1.
C11_WatchdogEscalation ==
    (term /\ wd_pc = "done" /\ cmd.state = "running" /\ cmd.ignores_int) =>
        \/ "SIGKILL" \in cmd.pending
        \/ tool = Exited(-1)

\* the command triggered no unfiltered capability check, the strace log is
\* missing or empty, and the D-Bus file is missing or holds no method call
\* for the command's namespace
TrivialRun ==
    /\ \A i \in 1..Len(stream) : Dropped(stream[i])
    /\ strace_log.syscalls = << >>
    /\ \/ dbus_json.kind = "Absent"
       \/ nsinode \notin DOMAIN dbus_json.content
       \/ \A i \in 1..Len(dbus_json.content[nsinode]) :
              dbus_json.content[nsinode][i].msg_type # "MethodCall"

\* C12: for a trivial command with empty or missing artifacts (and no
\* termination signal) the tool completes normally and the policy it emits
\* has capabilities = [], files = {} and dbus = [].
C12_TrivialCommand ==
    (TrivialRun /\ ~term) =>
        /\ pc # "panic"
        /\ pc \in {"done", "exited"} =>
               policy = << ProgramResult(EmptyCapSet, << >>, << >>, EnvVars) >>

\* C13: when the tool has exited, the command and the D-Bus child have been
\* reaped and the policy document has been written, and the tool's exit
\* code is the command's exit code (c for a command that exited with c, 0
\* for one that exited with 0).
C13_ExitCodePropagation ==
    tool.state = "exited" =>
        /\ cmd.state = "reaped"
        /\ dbus_child.state = "reaped"
        /\ Len(policy) = 1
        /\ cmd.status.kind = "Exited" => tool.code = cmd.status.code

\* the positions of main from the call of program_capabilities to the
\* written policy
AssemblyPcs == {"enter", "drain", "strace", "map", "emit", "done"}

\* C20: the drain and the tree union start, and every later step of the
\* policy assembly runs, only when the command has exited and been waited
\* for and the D-Bus child has been sent SIGINT and reaped; in particular
\* the D-Bus result file is read only then.
C20_EndOfRunOrdering ==
    /\ pc \in AssemblyPcs =>
           /\ cmd.state = "reaped"
           /\ dbus_child.state = "reaped"
           /\ "SIGINT" \in dbus_child.pending
    /\ [][(set_entry' # set_entry \/ capset' # capset
              \/ method_list' # method_list \/ policy' # policy) =>
              /\ cmd.state = "reaped"
              /\ dbus_child.state = "reaped"
              /\ "SIGINT" \in dbus_child.pending]_vars

\* a policy with a capability and a D-Bus method, written in a run in which
\* the tool was told to terminate while the command was running
C20_Witness ==
    /\ pc = "done"
    /\ term
    /\ wd_pc = "done"
    /\ policy[1].capabilities = << "CAP_NET_ADMIN" >>
    /\ Len(policy[1].dbus) = 1

\* C16: two Requests that agree on (pid, ppid, uid, parent_ns, ns) and differ
\* only in gid are merged into one entry: at every moment of the drain the
\* result set holds at most one entry per (pid, ppid, uid, parent_ns, ns),
\* and the entry of a key holds every bit raised for the key.
C16_ProcessKeyIgnoresGid ==
    /\ \A e1, e2 \in set_entry : Key5(e1) = Key5(e2) => e1 = e2
    /\ \A e \in set_entry : e.capabilities = CapsOfKey(set_entry, Key5(e))

\* C17: popping a Request whose stackid has no entry in the stack-trace
\* table is a skip: the drain goes on with the next Request and every entry
\* accumulated so far keeps its capability bits.
C17_MissingStackIsSkipped ==
    [][(/\ pc = "drain"
        /\ queue # << >>
        /\ queue[Len(queue)].stackid \notin DOMAIN stacktrace_map
        /\ queue[Len(queue)].stackid <= I32_MAX) =>
            /\ pc' = "drain"
            /\ \A e \in set_entry :
                   e.capabilities \subseteq CapsOfKey(set_entry', Key5(e))
      ]_vars

\* C19: the tree union started at root_ns returns for every graph built
\* from a Request stream, self-loops and pairs of namespaces that are each
\* the parent of the other included.
C19_UnionTerminates == pc # "overflow"

\* the stream holds a Request whose capability index is above the table
HasUnknownIndex == \E i \in 1..Len(stream) : stream[i].capability > 40

\* C18: a popped Request with a capability index greater than 40 aborts
\* processing: from a stream holding such a Request the run never goes past
\* the drain and never writes a policy, and once the queue is empty it has
\* panicked; get_cap has no capability for an index of 41..255, and no
\* entry ever holds a bit above 40.
C18_UnknownIndexAborts ==
    /\ HasUnknownIndex =>
           /\ pc \in {"drain", "panic"}
           /\ policy = << >>
           /\ queue = << >> => pc = "panic"
    /\ \A c \in 41..255 : get_cap(c) = "None"
    /\ \A e \in set_entry : e.capabilities \subseteq 0..40

\* the drain aggregated a known capability, then popped index 255 on a
\* resolved stack and panicked
C18_Witness ==
    /\ pc = "panic"
    /\ Len(stream) = 2
    /\ stream[1].capability = 255
    /\ stream[1].stackid \in DOMAIN stacktrace_map
    /\ queue = << >>
    /\ \E e \in set_entry : e.capabilities = {CapAsU8("NET_ADMIN")}

\* the Request the probe is said to push for a check; the stack id is the
\* kernel's and left open
IsRequestOf(r, c) ==
    /\ r.pid = c.pid /\ r.ppid = c.ppid /\ r.uid_gid = c.uid_gid
    /\ r.pnsid_nsid = c.pnsid_nsid /\ r.capability = c.capability

\* C15: every invocation of the probe whose kernel reads succeed pushes
\* exactly one Request stamped with the fields of its capability check onto
\* the queue the drain pops: n checks have put n Requests there, one per
\* check, in the order of the checks.
C15_OneRequestPerCheck ==
    /\ Len(queue) = Len(checks)
    /\ \A i \in 1..Len(checks) : IsRequestOf(queue[i], checks[i])

\* the bus names a reply to a credentials query has attributed to namespace
\* n: the query asked about the name, the reply went to the asker with the
\* query's serial and carried a ProcessID of n
AttributedTo(n) ==
    {messages[i].name : i \in
        {c \in 1..Len(messages) :
            /\ messages[c].msg_type = "MethodCall"
            /\ messages[c].member = "GetConnectionCredentials"
            /\ \E r \in (c + 1)..Len(messages) :
                   /\ messages[r].msg_type = "MethodReturn"
                   /\ messages[r].destination = messages[c].sender
                   /\ messages[r].reply_serial = messages[c].serial
                   /\ messages[r].pid_ns = n}}

\* the observed method calls of the names attributed to n
CallsOf(n) ==
    SelectSeq(messages,
              LAMBDA m : m.msg_type = "MethodCall" /\ m.sender \in AttributedTo(n))

CountIn(seq, x) == Cardinality({i \in 1..Len(seq) : seq[i] = x})

\* the list the parent reads for n from the file the D-Bus child writes
MethodListOf(n) == get_dbus_methods(nsid_to_requests(owners, bus_requests), n)

\* C14: after any sequence of observed messages, the method list for a
\* namespace N holds the interface.method string of every method call whose
\* sender was attributed to N, as often as the call was observed and
\* whether it came before or after the attribution, and nothing else; each
\* bus name is recorded at most once per namespace.
C14_DbusAttribution ==
    \A n \in {HostNs, CmdNs} :
        /\ CallsOf(n) # << >> => MethodListOf(n).kind = "Ok"
        /\ MethodListOf(n).kind = "Ok" =>
               \A i \in 1..Len(messages) :
                   messages[i].msg_type = "MethodCall" =>
                       LET str == messages[i].interface \o "." \o messages[i].member
                       IN CountIn(MethodListOf(n).methods, str) =
                             Cardinality({j \in 1..Len(CallsOf(n)) :
                                 CallsOf(n)[j].interface \o "." \o CallsOf(n)[j].member = str})
        /\ n \in DOMAIN owners =>
               \A i, j \in 1..Len(owners[n]) : owners[n][i] = owners[n][j] => i = j

\* C28: for every capability index c in 0..40 checked by a task, an
\* invocation whose reads succeed ORs exactly 2^c into the task's word of
\* CAPABILITIES_MAP: bit c is set and no other bit changes, also for c = 31
\* and for c in 32..40.
C28_ExactBit ==
    [][(checks' # checks /\ probe_ret'.kind # "Err") =>
          LET c == checks'[Len(checks')]
              capval == IF c.pid \in DOMAIN CAPABILITIES_MAP
                        THEN CAPABILITIES_MAP[c.pid] ELSE {}
          IN /\ c.pid \in DOMAIN CAPABILITIES_MAP'
             /\ CAPABILITIES_MAP'[c.pid] = capval \cup {c.capability}
      ]_vars

\* C23: an invocation in which a kernel read failed returns a non-zero
\* value and leaves the four maps as they were.
C23_ProbeFailurePolicy ==
    [][(checks' # checks /\ probe_ret'.kind = "Err") =>
          /\ probe_ret'.value # << 0, 0 >>
          /\ CAPABILITIES_MAP' = CAPABILITIES_MAP
          /\ UID_GID_MAP' = UID_GID_MAP
          /\ PPID_MAP' = PPID_MAP
          /\ PNSID_NSID_MAP' = PNSID_NSID_MAP
      ]_vars

\* a check of a pid that has an entry failed in the read of a namespace
\* inode, after an invocation that succeeded
C23_Witness ==
    /\ Len(checks) = 2
    /\ probe_ret.kind = "Err"
    /\ checks[1].pid = checks[2].pid
    /\ checks[1].pnsid_nsid # checks[2].pnsid_nsid
    /\ PNSID_NSID_MAP = (checks[1].pid :> checks[1].pnsid_nsid)

\* main's expect on Child::wait failed: a panic before the D-Bus child was
\* signalled
WaitPanicked == pc = "panic" /\ "SIGINT" \notin dbus_child.pending

\* C29: the watchdog and main never contend for the child: at the point of
\* sending SIGKILL the watchdog finds the mutex free, main's wait obtains
\* the command's status although the watchdog polls the same pid, and no
\* thread panics.
C29_NoContention ==
    /\ (wd_pc = "escalate" /\ wd_i >= MAX_CHECK) => child_lock = "free"
    /\ ~WaitPanicked
    /\ wd_pc # "panic"

\* C27: the packed fields survive the kernel/user boundary: extract_ns of
\* (parent_ns << 32) | ns is (ns, parent_ns), and the drain recovers uid
\* from the low and gid from the high 32 bits of (gid << 32) | uid, for
\* every 32-bit value of the four fields.
C27_PackedRoundTrip ==
    /\ wire.stage = "split" =>
           /\ wire.out.ns = wire.ns
           /\ wire.out.parent_ns = wire.parent_ns
           /\ wire.out.uid = wire.uid
           /\ wire.out.gid = wire.gid
    /\ wire.stage \in {"packed", "split"} =>
           /\ wire.pnsid_nsid = wire.ns \o wire.parent_ns
           /\ wire.uid_gid = wire.uid \o wire.gid

\* all bits of parent_ns and of gid set, next to a namespace inode above
\* 2^31 and uid 0
C27_Witness ==
    /\ wire.stage = "split"
    /\ wire.parent_ns = << 65535, 65535 >>
    /\ wire.ns = << 252, 61440 >>
    /\ wire.gid = << 65535, 65535 >>
    /\ wire.uid = << 0, 0 >>
    /\ wire.out.ns = << 252, 61440 >>
    /\ wire.out.uid = << 0, 0 >>

\* the row of CALLS a syscall is mapped by (0: none)
RowOf(sc) ==
    LET rows == {i \in 1..Len(CALLS) : CALLS[i].pos # 0 /\ CALLS[i].name = sc.syscall}
    IN IF rows = {} THEN 0 ELSE CHOOSE r \in rows : \A o \in rows : r <= o

IsOpen(sc) == sc.syscall \in {"open", "openat", "openat2"}

\* the syscall names a path: it is mapped and has the argument of its row
HasPath(sc) == RowOf(sc) # 0 /\ Len(sc.args) >= CALLS[RowOf(sc)].pos

PathOf(sc) == sc.args[CALLS[RowOf(sc)].pos]

\* the "other" bits of p grant every access of a
OtherGrants(p, a) == \A l \in a : (Fs[p].mode \div AccessBit[l]) % 2 = 1

\* the entries the mapper returned in a step of the `.map(..)` closure
Emitted == SubSeq(access', Len(access) + 1, Len(access'))

\* the access the mapper requests for a syscall: the access of its row and,
\* for the open family, what the flags argument it reads decodes to
RequestedAccess(sc) ==
    CALLS[RowOf(sc)].access
        \cup (IF IsOpen(sc)
              THEN OpenFlagsAccess(IF Len(sc.args) > 2 THEN sc.args[3] ELSE sc.args[2])
              ELSE {})

\* C24: for a mapped syscall on path p with requested access A the mapper
\* emits the entry (canonical p, A) iff A is not empty, the return constant
\* is not ENOENT, the metadata of p can be read and the "other" bits of p
\* do not grant all of A; a syscall that returned ENOENT yields no entry.
C24_EmissionRule ==
    [][sys_idx' = sys_idx + 1 =>
          LET sc == strace_log.syscalls[sys_idx + 1]
              A == RequestedAccess(sc)
              p == PathOf(sc)
              entry == SyscallAccessEntry(Canonicalize(p), A, sc.syscall)
          IN HasPath(sc) =>
                /\ (\E i \in 1..Len(Emitted) : Emitted[i] = entry) <=>
                       /\ A # {}
                       /\ sc.constant # "ENOENT"
                       /\ PathExists(p)
                       /\ ~OtherGrants(p, A)
                /\ sc.constant = "ENOENT" => Emitted = << >>
      ]_vars

\* an entry through a symbolic link was emitted under its canonical path,
\* and a world-readable file was left out
C24_Witness ==
    /\ sys_idx = 1
    /\ \/ /\ strace_log.syscalls[1] = Syscall("openat", << "AT_FDCWD", "/lnk/key", "O_RDWR" >>, "None")
          /\ access = << SyscallAccessEntry("/priv/key", {"R", "W"}, "openat") >>
       \/ /\ strace_log.syscalls[1] = Syscall("open", << "/etc/passwd", "O_RDONLY" >>, "None")
          /\ access = << >>

\* the flags argument of an open-family call: the one that follows the path
FlagsAfterPath(sc) == sc.args[CALLS[RowOf(sc)].pos + 1]

\* the decoding of the flags as the specification words it
DecodedAccess(flags) ==
    (IF StrContains(flags, "O_RDONLY") THEN {"R"} ELSE {})
        \cup (IF StrContains(flags, "O_WRONLY") \/ StrContains(flags, "O_CREAT")
              THEN {"W"} ELSE {})
        \cup (IF StrContains(flags, "O_RDWR") THEN {"R", "W"} ELSE {})

\* C25: for every open, openat and openat2, whatever its number of
\* arguments, the requested access is decoded from the argument that
\* follows the path (O_RDONLY: R, O_WRONLY or O_CREAT: W, O_RDWR: RW): when
\* the call did not return ENOENT and the file's "other" bits do not grant
\* that access, the entry of the path is emitted with it.
C25_OpenFlagDecoding ==
    [][sys_idx' = sys_idx + 1 =>
          LET sc == strace_log.syscalls[sys_idx + 1]
              p == PathOf(sc)
              A == DecodedAccess(FlagsAfterPath(sc))
          IN (/\ IsOpen(sc) /\ HasPath(sc)
              /\ sc.constant # "ENOENT" /\ PathExists(p)
              /\ A # {} /\ ~OtherGrants(p, A)) =>
                 \E i \in 1..Len(Emitted) :
                     Emitted[i] = SyscallAccessEntry(Canonicalize(p), A, sc.syscall)
      ]_vars

\* the directories above p, nearest first
RECURSIVE Ancestors(_)
Ancestors(p) ==
    IF PathParent(p) = "None" THEN << >>
    ELSE << PathParent(p) >> \o Ancestors(PathParent(p))

CreatesOrDeletes(sc) ==
    \/ sc.syscall \in {"mkdir", "mkdirat", "mknod", "mknodat", "symlink",
                        "symlinkat", "unlink", "unlinkat"}
    \/ IsOpen(sc) /\ StrContains(FlagsAfterPath(sc), "O_CREAT")

\* C26: for every mapped syscall on path p that is not ignored for ENOENT,
\* each ancestor directory of p whose "other" bits do not grant X is in the
\* output with X, and the immediate parent is there with W as well when the
\* syscall creates or deletes and the parent does not grant W and X; also
\* when the entry of p itself is suppressed.
C26_ParentWalk ==
    [][sys_idx' = sys_idx + 1 =>
          LET sc == strace_log.syscalls[sys_idx + 1]
              p == PathOf(sc)
              dirs == Ancestors(p)
          IN (HasPath(sc) /\ sc.constant # "ENOENT") =>
                \A k \in 1..Len(dirs) :
                    LET d == dirs[k]
                        need == {"X"} \cup (IF k = 1 /\ CreatesOrDeletes(sc)
                                            THEN {"W"} ELSE {})
                    IN (PathExists(d) /\ ~OtherGrants(d, need)) =>
                          \E i \in 1..Len(Emitted) :
                              /\ Emitted[i].path = Canonicalize(d)
                              /\ need \subseteq Emitted[i].access
      ]_vars

\* C21: every elevate/do/drop bracket leaves the toggled capability as it
\* found it, on every return path: a call of syscall_to_entry, early
\* returns included, leaves the tool's effective set as it was.
C21_PrivilegeBracketing ==
    [][sys_idx' = sys_idx + 1 => effective' = effective]_vars

\* a pending signal is taken by the D-Bus child with its handlers installed
HandlerRuns ==
    /\ dbus_child.state = "running"
    /\ dbus_pc \notin {"register"}
    /\ dbus_child'.pending # dbus_child.pending
    /\ dbus_child'.pending \subseteq dbus_child.pending

ThisRunJson == DbusFile("Json", nsid_to_requests(owners, bus_requests))

C30_ReapedAfterWrite ==
    [][pc = "wait_dbus" /\ pc' = "enter" =>
          dbus_pc = "exited_0" /\ dbus_json = ThisRunJson]_vars

====
